---- MODULE Spec2Model ----
(***************************************************************************)
(* A model of moontool's calculation routines (src/moon/moon.c) and of     *)
(* the two entry points moonphase / mooncal declared in moon.h.            *)
(*                                                                         *)
(* Number representation.  The C code computes in double.  TLC's integers  *)
(* are 32 bits wide, so a Julian date is kept as a record [d, u]: d whole  *)
(* days and u millionths of a day (0 <= u < Micro), and a time_t as a      *)
(* record [days, secs] (days since 1970-01-01, seconds of that day).       *)
(* Angles are kept in 1e-5 degree, sines scaled by SinScale.  Every        *)
(* formula below is the source's formula evaluated in that fixed point;    *)
(* the instants of the phases agree with the double results to 1e-4 day.   *)
(***************************************************************************)
EXTENDS Integers, Sequences, FiniteSets, TLC

(***************************************************************************)
(* Bounds of the model (not program constants).                            *)
(***************************************************************************)
YearSpan == 1          \* years taken on each side of a pivot year
MaxPasses == 8         \* passes of phasehunt's loop that are followed
NumRecords == 2        \* records of each type the callers hold
HuntSpan == 15         \* days searched on each side of a pivot date
SimRuns == 120         \* runs of the command line tool in one walk
NumThreads == 2        \* threads calling the library
WeekDays == 7          \* consecutive days jwday is called for
MaxKepler == 6         \* passes of kepler's loop that are followed
DayRun == 6            \* consecutive days ucttoj is called for
MaxArg == 3            \* characters of the command line arguments tried

(***************************************************************************)
(* Fixed point helpers.                                                    *)
(***************************************************************************)
Micro == 1000 * 1000                \* units of u per day
NoVal == [none |-> TRUE]            \* "not computed yet"

\* C's conversion of a non-integral quotient to an integer type truncates
\* toward zero: (long) (num / den) for den > 0.
TruncDiv(num, den) == IF num >= 0 THEN num \div den ELSE -((-num) \div den)

\* floor(num / den) for den > 0
FloorDiv(num, den) == num \div den

Abs(x) == IF x < 0 THEN -x ELSE x

\* A Julian date d + u/Micro, normalised.
JD(d, u) == [d |-> d + (u \div Micro), u |-> u % Micro]
JAdd(j, d, u) == JD(j.d + d, j.u + u)
JLe(a, b) == a.d < b.d \/ (a.d = b.d /\ a.u <= b.u)
JLt(a, b) == a.d < b.d \/ (a.d = b.d /\ a.u < b.u)

(***************************************************************************)
(* Time-scale conversion.                                                  *)
(***************************************************************************)

\* UCTTOJ: year, mon (0..11), mday, hour, min, sec -> Julian date.
\* the century is taken of the civil year, not of the year y that January
\* and February count to
ucttoj_b_civil(year, mon, mday) ==
    IF (year < 1582) \/
       ((year = 1582) /\ ((mon < 9) \/ (mon = 9 /\ mday < 5)))
    THEN 0
    ELSE 2 - TruncDiv(year, 100) + TruncDiv(TruncDiv(year, 100), 4)

\* ucttoj's b: 0 in the Julian calendar, else a = (int) (y / 100) and
\* b = 2 - a + (a / 4), y being the year less one for January and February
ucttoj_b(year, mon, mday) ==
    LET y == IF mon + 1 <= 2 THEN year - 1 ELSE year
        a == TruncDiv(y, 100)
    IN  IF (year < 1582) \/
           ((year = 1582) /\ ((mon < 9) \/ (mon = 9 /\ mday < 5)))
        THEN 0
        ELSE 2 - a + TruncDiv(a, 4)

ucttoj(year, mon, mday, hour, min, sec) ==
    LET m0 == mon + 1
        y  == IF m0 <= 2 THEN year - 1 ELSE year
        m  == IF m0 <= 2 THEN m0 + 12 ELSE m0
        b  == ucttoj_b(year, mon, mday)
        \* (long) (365.25 * (y + 4716)) + (int) (30.6001 * (m + 1))
        whole == TruncDiv(36525 * (y + 4716), 100)
                 + TruncDiv(306001 * (m + 1), 10000)
        secs  == sec + 60 * (min + 60 * hour)
    IN  \* (whole + mday + b - 1524.5) + secs / 86400.0
        JD(whole + mday + b - 1525, 500000 + ((secs * 625) \div 54))

\* JYEAR with the cutover at Julian day number `cut` (the source: 2299161.0)
jyear_cut(td, cut) ==
    LET t1    == JAdd(td, 0, 500000)                 \* td += 0.5
        z     == t1.d                                \* floor(td)
        f     == t1.u                                \* td - z
        alpha == FloorDiv(100 * z - 186721625, 3652425)
        a     == IF z < cut THEN z
                 ELSE z + 1 + alpha - FloorDiv(alpha, 4)
        b     == a + 1524
        c     == FloorDiv(100 * b - 12210, 36525)    \* (b - 122.1) / 365.25
        d     == FloorDiv(36525 * c, 100)            \* 365.25 * c
        e     == FloorDiv((b - d) * 10000, 306001)   \* (b - d) / 30.6001
        \* (int) (b - d - floor(30.6001 * e) + f), f < 1
        dd    == b - d - FloorDiv(306001 * e, 10000) + (f \div Micro)
        mm    == IF e < 14 THEN e - 1 ELSE e - 13
        yy    == IF mm > 2 THEN c - 4716 ELSE c - 4715
    IN  [yy |-> yy, mm |-> mm, dd |-> dd]

\* a slip in the reform constant: the Gregorian branch starts a day late
jyear_late(td) == jyear_cut(td, 2299162)

\* JYEAR: Julian date -> year, month (1..12), day.
jyear(td) == jyear_cut(td, 2299161)

\* JHMS: Julian date -> hour, minute, second (rounded to the nearest second).
jhms(j) ==
    LET j1 == JAdd(j, 0, 500000)                     \* j += 0.5
        \* (long) (((j - floor(j)) * 86400.0) + 0.5)
        ij == (j1.u * 864 + 5000) \div 10000
    IN  [h |-> ij \div 3600, m |-> (ij \div 60) % 60, s |-> ij % 60]

\* C's remainder: the sign follows the dividend
CRem(num, den) == num - den * TruncDiv(num, den)

\* JWDAY: ((int) (j + 1.5)) % 7
jwday(j) ==
    LET x == JAdd(j, 1, 500000)
        n == IF x.d >= 0 \/ x.u = 0 THEN x.d ELSE x.d + 1   \* toward zero
    IN  CRem(n, 7)

\* JTIME: struct tm -> Julian date.
jtime(t) == ucttoj(t.tm_year + 1900, t.tm_mon, t.tm_mday,
                   t.tm_hour, t.tm_min, t.tm_sec)

(***************************************************************************)
(* Astronomical constants and the handy mathematical functions.            *)
(***************************************************************************)
elonge == 27883354                   \* 278.833540 degrees, in angle units
elongp == 28259640                   \* 282.596403 degrees
eccent == 1671800                    \* 0.016718, in 1e-8
mmlong == 6497546                    \* 64.975464 degrees
mmlongp == 34938306                  \* 349.383063 degrees
mlnode == 15195043                   \* 151.950429 degrees
lunatbase == 2423436                 \* base date of the lunation series
synmonth == [d |-> 29, u |-> 530588] \* 29.53058868 as a Julian-date step

SinScale == 20 * 1000                \* sines are kept as sin * SinScale
Deg == 100 * 1000                    \* angle units per degree
Full == 360 * Deg

\* The routines below that take their arguments in square brackets are
\* functions: an argument is worked out once, when the routine is entered,
\* as a C argument is.
JDates == [d : Int, u : 0..(Micro - 1)]

\* num / den rounded to the nearest integer (den > 0)
RoundDiv(num, den) == (num + den \div 2) \div den

\* sin of an angle a in 0..90 degrees (angle units): the angle in radians
\* (torad: a * PI / 180, PI = 3.14159265...), then the sine series
\* x - x^3/3! + x^5/5! - x^7/7! + x^9/9! in Horner form.
SinQuadrant(a) ==
    LET x  == RoundDiv((a \div 1000) * 34907 + ((a % 1000) * 349) \div 10, 10000)
        x2 == RoundDiv(x * x, SinScale)
        u  == SinScale - RoundDiv(x2, 72)
        v  == SinScale - RoundDiv(RoundDiv(x2 * u, SinScale), 42)
        w  == SinScale - RoundDiv(RoundDiv(x2 * v, SinScale), 20)
        q  == SinScale - RoundDiv(RoundDiv(x2 * w, SinScale), 6)
    IN  RoundDiv(x * q, SinScale)

\* sin of an angle r in 0 <= r < 360 degrees, times SinScale
Sine[r \in Nat] ==
    IF r <= 90 * Deg THEN SinQuadrant(r)
    ELSE IF r <= 180 * Deg THEN SinQuadrant(180 * Deg - r)
    ELSE IF r <= 270 * Deg THEN -SinQuadrant(r - 180 * Deg)
    ELSE -SinQuadrant(Full - r)

\* dsin(x) = sin(torad(x)), for any angle a (angle units), times SinScale
dsin(a) == Sine[a % Full]

\* dcos(x) = cos(torad(x))
dcos(a) == Sine[(a + 90 * Deg) % Full]

\* (c * n) mod 360 degrees for 0 <= c < Full and n >= 0, by doubling, so that
\* no intermediate product leaves the integer range
MulMod[c \in Nat, n \in Nat] ==
    IF n = 0 THEN 0
    ELSE (2 * MulMod[c, n \div 2] + (n % 2) * c) % Full

\* (chi + clo / 1000) angle units per lunation, times k + sel / 1000
\* lunations, modulo 360 degrees
AngleRate(chi, clo, k, sel) ==
    LET whole == IF k >= 0 THEN MulMod[chi % Full, k]
                 ELSE (Full - MulMod[chi % Full, -k]) % Full
    IN  (whole + (k * clo) \div 1000
         + (chi \div 1000) * sel + ((chi % 1000) * sel) \div 1000) % Full

\* synmonth * (k + sel / 1000) with all eight decimals of 29.53058868
SynTimes(k, sel) ==
    JD(29 * k + (k * 5305) \div 10000,
       ((k * 5305) % 10000) * 100 + (k * 8868) \div 100
       + sel * 29530 + (sel * 58868) \div 100000)

\* t * t in 1e-4 century^2, for t in 1e-3 Julian centuries
TSquare(t) ==
    100 * (t \div 100) * (t \div 100) + 2 * (t \div 100) * (t % 100)
    + ((t % 100) * (t % 100)) \div 100

\* t * t * t in 1e-3 century^3, for t in 1e-3 Julian centuries
TCube(t) == (TSquare(t) \div 1000) * (t \div 10)

(***************************************************************************)
(* Radians and pure numbers are kept in 1e-8 (Unit), a product of two of   *)
(* them being formed limb by limb so that nothing leaves the integer       *)
(* range.                                                                  *)
(***************************************************************************)
Unit == 100 * 1000 * 1000
Limb == 10 * 1000
HalfPi == 157079633                  \* PI / 2
Pi == 314159265                      \* PI
TwoPi == 628318531                   \* 2 * PI

\* a * b for two numbers in 1e-8, each below 2 in size
MulFix[a \in Int, b \in Int] ==
    (IF (a >= 0) = (b >= 0) THEN 1 ELSE -1)
    * ( (Abs(a) \div Limb) * (Abs(b) \div Limb)
      + ((Abs(a) \div Limb) * (Abs(b) % Limb)
         + (Abs(a) % Limb) * (Abs(b) \div Limb)) \div Limb
      + ((Abs(a) % Limb) * (Abs(b) % Limb)) \div Unit )

\* torad(d) = d * (PI / 180.0): angle units to radians, 17.4532925 per unit
torad[d \in Int] ==
    (IF d >= 0 THEN 1 ELSE -1)
    * ( 17 * Abs(d) + ((Abs(d) \div 1000) * 4532) \div 10
      + ((Abs(d) \div 1000) * 925) \div 10000
      + ((Abs(d) % 1000) * 4533) \div 10000 )

\* todeg(d) = d * (180.0 / PI): radians to angle units, 0.0572957795 per 1e-8
todeg[d \in Int] ==
    (IF d >= 0 THEN 1 ELSE -1)
    * ( (Abs(d) \div 100000) * 5729 + ((Abs(d) \div 100000) * 578) \div 1000
      + ((Abs(d) % 100000) * 5729) \div 100000 )

\* sin(x) for 0 <= x <= PI / 2, by the series up to x^13 in Horner form
SinFirst[x \in Nat] ==
    MulFix[x, Unit - MulFix[MulFix[x, x],
              Unit - MulFix[MulFix[x, x],
              Unit - MulFix[MulFix[x, x],
              Unit - MulFix[MulFix[x, x],
              Unit - MulFix[MulFix[x, x],
              Unit - MulFix[x, x] \div 156] \div 110] \div 72] \div 42]
              \div 20] \div 6]

\* sin(x) for x reduced to 0 <= r < 2 PI
SinTurn[r \in Nat] ==
    IF r <= HalfPi THEN SinFirst[r]
    ELSE IF r <= Pi THEN SinFirst[Pi - r]
    ELSE IF r <= Pi + HalfPi THEN -SinFirst[r - Pi]
    ELSE -SinFirst[TwoPi - r]

\* sin and cos of libm, for x in radians
sin(x) == SinTurn[x % TwoPi]
cos(x) == SinTurn[(x + HalfPi) % TwoPi]

\* a / b for b within a few hundredths of 1:
\* a * (1 + r + r^2 + r^3) with r = 1 - b, the quotient to 1e-8
DivNearOne[a \in Int, b \in Int] ==
    a + MulFix[a, Unit - b] + MulFix[MulFix[a, Unit - b], Unit - b]
      + MulFix[MulFix[MulFix[a, Unit - b], Unit - b], Unit - b]

\* atan(y / x) for x >= 0, the angle t of -PI/2 .. PI/2 with
\* x * sin(t) = y * cos(t), found by halving lo .. hi
AtanSearch[y \in Int, x \in Nat, lo \in Int, hi \in Int] ==
    IF hi - lo <= 1 THEN lo
    ELSE IF MulFix[x, sin((lo + hi) \div 2)] - MulFix[y, cos((lo + hi) \div 2)] <= 0
    THEN AtanSearch[y, x, (lo + hi) \div 2, hi]
    ELSE AtanSearch[y, x, lo, (lo + hi) \div 2]

\* atan of the quotient y / x
atan(y, x) ==
    IF x >= 0 THEN AtanSearch[y, x, -HalfPi, HalfPi]
    ELSE AtanSearch[-y, -x, -HalfPi, HalfPi]

\* rate * Day modulo 360 degrees, for a rate of chi + clo / 1000 angle units
\* a day and Day = [d, u] days
DayAngle(chi, clo, Day) ==
    ( (IF Day.d >= 0 THEN MulMod[chi % Full, Day.d]
       ELSE (Full - MulMod[chi % Full, -Day.d]) % Full)
    + (IF Day.d >= 0 THEN 1 ELSE -1)
      * ((Abs(Day.d) \div 1000) * clo + ((Abs(Day.d) % 1000) * clo) \div 1000)
    + ((chi \div 100) * (Day.u \div 100)) \div 100
    + ((chi % 100) * (Day.u \div 100)) \div 10000
    + ((chi \div 100) * (Day.u % 100)) \div 10000 ) % Full

(***************************************************************************)
(* Kepler's equation and the phase of the Moon.                            *)
(***************************************************************************)
EPSILON == 100                       \* 1E-6
StillIterating == [end |-> "loop"]   \* the do ... while has not left

\* The doubles kepler works on.  For a mean anomaly of a turn or two they
\* are taken as the Units themselves.  For an anomaly far from zero the
\* doubles at m = torad(m) lie a spacing ulp apart that Units cannot give
\* together with m, so e is kept as the count k of spacings from m, and m as
\* rad, its value modulo 2 PI: e = m + k * ulp.  ulp is in 1e-4 Unit, and
\* NearZero is the spacing of one Unit.
NearZero == 10000

\* k spacings, in Unit
UlpTimes(k, ulp) == k * (ulp \div 10000) + (k * (ulp % 10000)) \div 10000

\* x (in Unit) rounded to a whole number of spacings
RoundUlps(x, ulp) == RoundDiv(x * 100, ulp \div 100)

\* delta = e - ecc * sin(e) - m, in spacings: the difference e - ecc * sin(e)
\* is rounded to a double at the spacing of m, and taking m off it is exact
KeplerDelta(rad, k, ecc, ulp) ==
    RoundUlps(UlpTimes(k, ulp) - MulFix[ecc, sin(rad + UlpTimes(k, ulp))], ulp)

\* e -= delta / (1 - ecc * cos(e)), in spacings from m
KeplerNext[rad \in Int, k \in Int, ecc \in Int, ulp \in Nat, delta \in Int] ==
    k - RoundUlps(DivNearOne[UlpTimes(delta, ulp),
                             Unit - MulFix[ecc, cos(rad + UlpTimes(k, ulp))]],
                  ulp)

\* the end of one pass of do { ... } while (abs(delta) > EPSILON), the n-th
KeplerPass[rad \in Int, k \in Int, ecc \in Int, ulp \in Nat, n \in Nat, delta \in Int] ==
    IF Abs(UlpTimes(delta, ulp)) > EPSILON
    THEN IF n >= MaxKepler THEN StillIterating
         ELSE KeplerPass[rad, KeplerNext[rad, k, ecc, ulp, delta], ecc, ulp, n + 1,
                         KeplerDelta(rad, KeplerNext[rad, k, ecc, ulp, delta],
                                     ecc, ulp)]
    ELSE [end |-> "return",
          k |-> KeplerNext[rad, k, ecc, ulp, delta],
          e |-> rad + UlpTimes(KeplerNext[rad, k, ecc, ulp, delta], ulp),
          passes |-> n]

\* kepler from its do ... while on, entered the first time with e = m
KeplerLoop[rad \in Int, ecc \in Int, ulp \in Nat] ==
    KeplerPass[rad, 0, ecc, ulp, 1, KeplerDelta(rad, 0, ecc, ulp)]

\* KEPLER for a mean anomaly far from zero, given by torad(m) modulo 2 PI and
\* the spacing of the doubles at torad(m)
kepler_far(rad, ulp, ecc) == KeplerLoop[rad, ecc, ulp]

\* KEPLER: e = m = torad(m), then the loop; m in angle units
kepler(m, ecc) == KeplerLoop[torad[m], ecc, NearZero]

epoch == [d |-> 2444238, u |-> 500000]    \* 1980 January 0.0
SqrtRatio == 101686011               \* sqrt((1 + eccent) / (1 - eccent))

\* Ec = sqrt((1 + eccent) / (1 - eccent)) * tan(Ec / 2);
\* Ec = 2 * todeg(atan(Ec)): the true anomaly, tan kept as sin over cos
TrueAnomaly[Ec \in Int] ==
    2 * todeg[atan(MulFix[SqrtRatio, sin(Ec \div 2)], cos(Ec \div 2))]

\* Lambdasun = fixangle(Ec + elongp) for the Sun's mean anomaly M
Lambdasun[M \in Int] == (TrueAnomaly[kepler(M, eccent).e] + elongp) % Full

\* fixangle(a) = a - 360.0 * floor(a / 360.0) as the double arithmetic gives
\* it for the ages the angle unit a stands for, a <= x < a + 1 units.  For
\* x < 0 the quotient's floor is negative and the difference is x plus a
\* multiple of 360, rounded to a double: it lies below 360, except that for
\* x within 2.8e-14 of zero (or of a negative multiple of 360), which the
\* unit before a multiple of 360 holds, it is rounded to 360.0 itself.
FixangleValues(a) ==
    IF a < 0 /\ a % Full = Full - 1 THEN {Full - 1, Full} ELSE {a % Full}

\* what phase stores and returns, given fa = fixangle(MoonAge): the returned
\* fraction fa / 360.0 in millionths, *mage = synmonth * (fa / 360.0) in
\* millionths of a day, *pphase = (1 - cos(torad(MoonAge))) / 2 times
\* SinScale.  The distances and angular sizes are not followed.
PhaseResult(fa) ==
    [p      |-> fa \div 36,
     mage   |-> 29 * (fa \div 36)
                + (((fa \div 36) \div 1000) * 530588) \div 1000
                + (((fa \div 36) % 1000) * 530588) \div Micro,
     pphase |-> (SinScale - dcos(fa)) \div 2]

\* V = 0.6583 * sin(torad(2 * (lP - Lambdasun))); lPP = lP + V;
\* MoonAge = lPP - Lambdasun
MoonTrue[lP \in Int, ls \in Int] ==
    lP + (65830 * dsin(2 * (lP - ls))) \div SinScale - ls

\* mEc = 6.2886 * sin(torad(MmP)); A4 = 0.214 * sin(torad(2 * MmP));
\* lP = ml + Ev + mEc - Ae + A4
MoonLongitude[ml \in Int, ls \in Int, M \in Int, Ev \in Int, MmP \in Int] ==
    MoonTrue[ml + Ev + (62886 * dsin(MmP)) \div 2000
             - (18580 * dsin(M)) \div SinScale
             + (21400 * dsin(2 * MmP)) \div SinScale,
             ls]

\* Ev = 1.2739 * sin(torad(2 * (ml - Lambdasun) - MM));
\* Ae = 0.1858 * sin(torad(M)); A3 = 0.37 * sin(torad(M));
\* MmP = MM + Ev - Ae - A3
MoonCorrected[ml \in Int, MM \in Int, M \in Int, ls \in Int] ==
    MoonLongitude[ml, ls, M,
                  (12739 * dsin(2 * (ml - ls) - MM)) \div 2000,
                  MM + (12739 * dsin(2 * (ml - ls) - MM)) \div 2000
                     - (18580 * dsin(M)) \div SinScale
                     - (37000 * dsin(M)) \div SinScale]

\* MM = fixangle(ml - 0.1114041 * Day - mmlongp)
MoonMean[Day \in JDates, ml \in Int, M \in Int] ==
    MoonCorrected[ml, (ml - DayAngle(11140, 410, Day) - mmlongp) % Full,
                  M, Lambdasun[M]]

\* N = fixangle((360 / 365.2422) * Day); M = fixangle(N + elonge - elongp);
\* ml = fixangle(13.1763966 * Day + mmlong)
MoonAt[Day \in JDates] ==
    MoonMean[Day, (DayAngle(1317639, 660, Day) + mmlong) % Full,
             (DayAngle(98564, 733, Day) + elonge - elongp) % Full]

\* MoonAge for the date pdate: Day = pdate - epoch, then the positions of
\* the Sun and the Moon
MoonAge[pdate \in JDates] == MoonAt[JAdd(pdate, -(epoch.d + 1), Micro - epoch.u)]

\* PHASE: the results phase can give for the date pdate
phase[pdate \in JDates] == {PhaseResult(fa) : fa \in FixangleValues(MoonAge[pdate])}

(***************************************************************************)
(* Phase-boundary search.                                                  *)
(***************************************************************************)

\* The mean time of phase both meanphase and truephase compute:
\*   2415020.75933 + synmonth * k + 0.0001178 * t2 - 0.000000155 * t3
\*     + 0.00033 * dsin(166.56 + 132.87 * t - 0.009173 * t2)
\* for t in 1e-3 Julian centuries and k + sel / 1000 lunations.
MeanTime[t \in Int, k \in Int, sel \in Int] ==
    JAdd(JAdd(SynTimes(k, sel), 2415020, 759330), 0,
         ((TSquare(t) \div 100) * 1178) \div 1000
         - ((TCube(t) \div 1000) * 155) \div 1000
         + (330 * dsin(16656000 + 13287 * t
                       - ((TSquare(t) \div 100) * 917) \div 100)) \div SinScale)

\* MEANPHASE: time of the mean new moon k for a base date sdate;
\* t = (sdate - 2415020.0) / 36525
meanphase[sdate \in JDates, k \in Int] ==
    MeanTime[((sdate.d - 2415020) * 40 + (sdate.u * 40) \div Micro) \div 1461,
             k, 0]

ProgramExit == [exit |-> TRUE]       \* exit(EXIT_FAILURE)

\* the periodic terms of a new or full moon, in 1e-5 day * SinScale
NewFullTerms[t \in Int, m \in Int, mprime \in Int, f \in Int] ==
      (17340 - (393 * t) \div 10000) * dsin(m)
    + 210 * dsin(2 * m)
    - 40680 * dsin(mprime)
    + 1610 * dsin(2 * mprime)
    - 40 * dsin(3 * mprime)
    + 1040 * dsin(2 * f)
    - 510 * dsin(m + mprime)
    - 740 * dsin(m - mprime)
    + 40 * dsin(2 * f + m)
    - 40 * dsin(2 * f - m)
    - 60 * dsin(2 * f + mprime)
    + 100 * dsin(2 * f - mprime)
    + 50 * dsin(m + 2 * mprime)

\* the periodic terms of a first or last quarter, in 1e-5 day * SinScale
QuarterTerms[t \in Int, m \in Int, mprime \in Int, f \in Int] ==
      (17210 - (400 * t) \div 10000) * dsin(m)
    + 210 * dsin(2 * m)
    - 62800 * dsin(mprime)
    + 890 * dsin(2 * mprime)
    - 40 * dsin(3 * mprime)
    + 790 * dsin(2 * f)
    - 1190 * dsin(m + mprime)
    - 470 * dsin(m - mprime)
    + 30 * dsin(2 * f + m)
    - 40 * dsin(2 * f - m)
    - 60 * dsin(2 * f + mprime)
    + 210 * dsin(2 * f - mprime)
    + 30 * dsin(m + 2 * mprime)
    + 40 * dsin(m - 2 * mprime)
    - 30 * dsin(2 * m + mprime)

\* 0.0028 - 0.0004 * dcos(m) + 0.0003 * dcos(mprime), in millionths of a day
QuarterShift[m \in Int, mprime \in Int] ==
    2800 + (-400 * dcos(m) + 300 * dcos(mprime)) \div SinScale

\* truephase's t, m, mprime and f for lunation index k and selector sel
TrueArgs[k \in Int, sel \in Int] ==
    LET t   == ((1000 * k + sel) * 20) \div 24737          \* (k + phase) / 1236.85
        t2  == TSquare(t) \div 100
        t3  == TCube(t) \div 1000
    IN  [t |-> t,
         m |-> (35922420 + AngleRate(2910535, 608, k, sel)   \* Sun's mean anomaly
                - (t2 * 333) \div 10000 - (t3 * 347) \div 1000) % Full,
         mprime |-> (30602530 + AngleRate(38581691, 806, k, sel) \* Moon's mean anomaly
                + (t2 * 1073) \div 100 + (t3 * 1236) \div 1000) % Full,
         f |-> (2129640 + AngleRate(39067050, 646, k, sel)   \* argument of latitude
                - (t2 * 1653) \div 1000 - (t3 * 239) \div 1000) % Full]

\* the first quarter correction taken for every quarter
QuarterCorrection_first(sel, m, mprime) == QuarterShift[m, mprime]

\* if (phase < 0.5) the first quarter correction, else the last quarter one
QuarterCorrection(sel, m, mprime) ==
    IF sel < 500 THEN QuarterShift[m, mprime] ELSE -QuarterShift[m, mprime]

\* TRUEPHASE: true, corrected time of the phase `sel` (in thousandths of a
\* lunation: 0, 250, 500, 750) of lunation index k; ProgramExit when the
\* selector is rejected.
truephase[k \in Int, sel \in Int] ==
    LET a == TrueArgs[k, sel]
    IN  IF (sel < 10) \/ (Abs(sel - 500) < 10)
        THEN JAdd(MeanTime[a.t, k, sel], 0,
                  NewFullTerms[a.t, a.m, a.mprime, a.f] \div (SinScale \div 10))
        ELSE IF (Abs(sel - 250) < 10) \/ (Abs(sel - 750) < 10)
        THEN JAdd(MeanTime[a.t, k, sel], 0,
                  QuarterTerms[a.t, a.m, a.mprime, a.f] \div (SinScale \div 10)
                  + QuarterCorrection(sel, a.m, a.mprime))
        ELSE ProgramExit

\* k1 = floor((yy + ((mm - 1) * (1.0 / 12.0)) - 1900) * 12.3685)
HuntStartIndex(yy, mm) == FloorDiv((12 * (yy - 1900) + mm - 1) * 24737, 24000)

StillSearching == [end |-> "loop"]    \* the while (TRUE) loop has not left

\* a selector off the four phases: 0.3 where the first quarter is asked for
HuntPhases_off(k1, k2) ==
       (0 :> truephase[k1, 0])
    @@ (1 :> truephase[k1, 300])
    @@ (2 :> truephase[k1, 500])
    @@ (3 :> truephase[k1, 750])
    @@ (4 :> truephase[k2, 0])

\* the one new moon taken twice: phases[4] from k1 instead of k2
HuntPhases_same(k1, k2) ==
       (0 :> truephase[k1, 0])
    @@ (1 :> truephase[k1, 250])
    @@ (2 :> truephase[k1, 500])
    @@ (3 :> truephase[k1, 750])
    @@ (4 :> truephase[k1, 0])

\* phases[0] = truephase(k1, 0.0);  phases[1] = truephase(k1, 0.25);
\* phases[2] = truephase(k1, 0.5);  phases[3] = truephase(k1, 0.75);
\* phases[4] = truephase(k2, 0.0);
HuntPhases(k1, k2) ==
       (0 :> truephase[k1, 0])
    @@ (1 :> truephase[k1, 250])
    @@ (2 :> truephase[k1, 500])
    @@ (3 :> truephase[k1, 750])
    @@ (4 :> truephase[k2, 0])

PhaseArrays == [0..4 -> {ProgramExit} \cup JDates]
HuntLocals == [k1 : Int, k2 : Int, nt1 : JDates, nt2 : JDates, passes : Nat]

\* phasehunt's end once phases[0..4] are set: the return, unless truephase
\* ended the program.  The locals the loop left are kept with the phases.
HuntEnd[phases \in PhaseArrays, l \in HuntLocals] ==
    IF \E i \in 0..4 : phases[i] = ProgramExit THEN [end |-> "exit"]
    ELSE [end |-> "return", phases |-> phases,
          k1 |-> l.k1, k2 |-> l.k2, nt1 |-> l.nt1, nt2 |-> l.nt2,
          passes |-> l.passes]

\* phasehunt from its while (TRUE) loop on, entered for the n-th time with
\* adate, k1 and nt1 as the previous pass left them
HuntLoop[sdate \in JDates, adate \in JDates, k1 \in Int, nt1 \in JDates, n \in Nat] ==
    LET adate2 == JAdd(adate, synmonth.d, synmonth.u)
        k2     == k1 + 1
    IN  IF JLe(nt1, sdate) /\ JLt(sdate, meanphase[adate2, k2])
        THEN HuntEnd[HuntPhases(k1, k2),
                     [k1 |-> k1, k2 |-> k2, nt1 |-> nt1,
                      nt2 |-> meanphase[adate2, k2], passes |-> n]]
        ELSE IF n >= MaxPasses THEN StillSearching
        ELSE HuntLoop[sdate, adate2, k2, meanphase[adate2, k2], n + 1]

\* phasehunt once k1 is set: adate = nt1 = meanphase(adate, k1), then the loop
HuntFrom[sdate \in JDates, nt1 \in JDates, k1 \in Int] ==
    HuntLoop[sdate, nt1, k1, nt1, 1]

\* PHASEHUNT: the five phases around sdate, together with the locals k1, k2,
\* nt1, nt2 the loop ended with and the number of passes it made.  It ends
\* by returning ("return"), or in truephase's exit ("exit"), or not at all.
phasehunt[sdate \in JDates] ==
    LET adate == JAdd(sdate, -45, 0)
        k1    == HuntStartIndex(jyear(adate).yy, jyear(adate).mm)
    IN  HuntFrom[sdate, meanphase[adate, k1], k1]

\* floor(x / synmonth) for a span x of days: the q with
\* synmonth * q <= x < synmonth * (q + 1), looked for around x / 29.53
FloorLunations[x \in JDates] ==
    CHOOSE q \in (FloorDiv(x.d * 100, 2953) - 4)..(FloorDiv(x.d * 100, 2953) + 4) :
        JLe(SynTimes(q, 0), x) /\ JLt(x, SynTimes(q + 1, 0))

\* the base date moved to the edge of a lunation of the series
LunationOf_edge(last_new_moon) ==
    FloorLunations[JAdd(last_new_moon, 7 - (lunatbase + 8), 0)] + 1

\* lunation = (long) floor(((phasar[0] + 7) - lunatbase) / synmonth) + 1
LunationOf(last_new_moon) ==
    FloorLunations[JAdd(last_new_moon, 7 - lunatbase, 0)] + 1

(***************************************************************************)
(* C library: time_t, struct tm and gmtime.                                *)
(*                                                                         *)
(* A time_t is a record [gdays, days, secs]: gdays * 10^9 + days whole     *)
(* days since 1970-01-01 and secs seconds into that day.  gdays is 0 for   *)
(* every instant of the years the model computes with; the one other value *)
(* used is the largest time_t, whose year does not fit struct tm.          *)
(***************************************************************************)
NULL == [null |-> TRUE]

TimeT(days, secs) == [gdays |-> 0, days |-> days, secs |-> secs]

\* 9223372036854775807 s = 106751991167300 days and 55807 s
TimeTMax == [gdays |-> 106751, days |-> 991167300, secs |-> 55807]

\* t + n seconds, for a time_t of the computed range
AddSeconds(t, n) ==
    [gdays |-> t.gdays,
     days  |-> t.days + FloorDiv(t.secs + n, 86400),
     secs  |-> (t.secs + n) % 86400]

\* gmtime(&t): broken-down UTC time in the proleptic Gregorian calendar, or
\* NULL when the year cannot be represented.
gmtime(t) ==
    IF t.gdays # 0 THEN NULL
    ELSE
    LET z   == t.days + 719468
        era == FloorDiv(z, 146097)
        doe == z - era * 146097
        yoe == (doe - doe \div 1460 + doe \div 36524 - doe \div 146096) \div 365
        doy == doe - (365 * yoe + yoe \div 4 - yoe \div 100)
        mp  == (5 * doy + 2) \div 153
        mon == IF mp < 10 THEN mp + 3 ELSE mp - 9
        y   == yoe + era * 400 + (IF mon <= 2 THEN 1 ELSE 0)
    IN  [tm_year |-> y - 1900, tm_mon |-> mon - 1,
         tm_mday |-> doy - (153 * mp + 2) \div 5 + 1,
         tm_hour |-> t.secs \div 3600, tm_min |-> (t.secs \div 60) % 60,
         tm_sec  |-> t.secs % 60]

\* gmtime returns the address of one statically allocated struct tm
StaticTm == [addr |-> "gmtime buffer"]

(***************************************************************************)
(* State.                                                                  *)
(***************************************************************************)
VARIABLES
    civil,      \* conversion run: the civil date-time given to ucttoj
    jdv,        \* conversion run: the Julian date ucttoj returned
    decoded,    \* conversion run: what jyear and jhms made of jdv
    tph,        \* direct call of truephase: [k, sel, out]
    hdate,      \* direct call of phasehunt: the search date
    hres,       \* direct call of phasehunt: what it returned
    clock,      \* what time(NULL) returns now
    tmbuf,      \* the struct tm gmtime writes and returns the address of
    mphase,     \* the callers' MoonPhase records
    mcal,       \* the callers' MoonCalendar records
    proc,       \* the process: "ready", "searching" (phasehunt's loop has
                \* not left), "exited" (exit(EXIT_FAILURE))
    ret,        \* the value the last call of moonphase or mooncal returned
    delivered,  \* history: for each record, the argument of the call that
                \* filled it and everything readable through it as the call
                \* returned
    simt,       \* command line runs: the timestamp of the next run
    runs,       \* command line runs made
    trail,      \* history: the instant and what phasehunt returned with its
                \* locals, in the last two runs
    simcal,     \* the MoonCalendar records of the last two runs
    shown,      \* what print_mooncal wrote in the last run
    thr,        \* threads: each thread's call in progress
    call        \* an internal routine called directly, as the test program
                \* calls it: [fn, arg, out]

convVars == <<civil, jdv, decoded>>
huntVars == <<tph, hdate, hres>>
apiVars  == <<clock, tmbuf, mphase, mcal, proc, ret, delivered>>
simVars  == <<simt, runs, trail, simcal, shown>>
vars == <<civil, jdv, decoded, tph, hdate, hres, clock, tmbuf, mphase, mcal,
          proc, ret, delivered, simt, runs, trail, simcal, shown, thr, call>>

\* the parts of the state a run of one kind leaves untouched
ConvIdle == civil = NoVal /\ jdv = NoVal /\ decoded = NoVal
HuntIdle == tph = NoVal /\ hdate = NoVal /\ hres = NoVal
SimIdle  ==
    simt = NoVal /\ runs = 0 /\ trail = NoVal /\ simcal = NoVal /\ shown = NoVal
ThrIdle  == thr = NoVal /\ call = NoVal

(***************************************************************************)
(* The library's two entry points, called one after the other.             *)
(***************************************************************************)
Records == 1..NumRecords             \* the callers' records of each type

\* the instants passed explicitly: the test suite's 794886000, the first
\* instant of moonsim.sh (794058669), noon of 8505-04-14 (206233646400), and
\* the largest time_t
Stamps == {TimeT(9200, 6000), TimeT(9190, 42669), TimeT(2386963, 43200),
           TimeTMax}

\* the values time(NULL) takes while the program runs
ClockTimes == {TimeT(20761, 0), TimeT(20761, 3600)}

\* phasehunt's results for the search dates the instants above lead to,
\* worked out once
KnownHunts ==
    {<<d, phasehunt[d]>> :
        d \in {JAdd(jtime(gmtime(t)), 0, 500000) :
                  t \in (Stamps \ {TimeTMax}) \cup ClockTimes}}

\* phasehunt(sdate, phasar): looked up when sdate is one of those dates
HuntFor[sdate \in JDates] ==
    IF \E p \in KnownHunts : p[1] = sdate
    THEN (CHOOSE p \in KnownHunts : p[1] = sdate)[2]
    ELSE phasehunt[sdate]

ApiIdle ==
    /\ clock = NoVal /\ tmbuf = NoVal /\ mphase = NoVal /\ mcal = NoVal
    /\ proc = NoVal /\ ret = NoVal /\ delivered = NoVal

\* the current-time source is read whatever the argument is
ChosenTime_clock(timestamp, now) == now

\* every call reports success
ReturnValue_true(gm) == 1

\* if (gm == NULL) return FALSE; ... return TRUE;
ReturnValue(gm) == IF gm = NULL THEN 0 ELSE 1

\* if (timestamp != NULL) t = *timestamp; else t = time(NULL);
ChosenTime(timestamp, now) == IF timestamp # NULL THEN timestamp ELSE now

\* what moonphase stores, given the struct tm read through gm and t
PhaseRecord(tm, t) ==
    [julian_date   |-> jtime(tm),
     utc_timestamp |-> t,
     utc_datetime  |-> StaticTm]

\* what mooncal stores, given what phasehunt returned in phasar
Calendar(phasar) ==
    [last_new_moon |-> phasar[0],
     lunation      |-> LunationOf(phasar[0]),
     first_quarter |-> phasar[1],
     full_moon     |-> phasar[2],
     last_quarter  |-> phasar[3],
     next_new_moon |-> phasar[4]]

\* Everything a caller can read through a MoonPhase record while the static
\* struct tm holds buf: its own fields and the struct tm its pointer leads to.
ReadPhase(rec, buf) ==
    [julian_date   |-> rec.julian_date,
     utc_timestamp |-> rec.utc_timestamp,
     utc_datetime  |-> IF rec.utc_datetime = StaticTm THEN buf ELSE NULL]

ApiInit ==
    /\ clock = TimeT(20761, 0)
    /\ tmbuf = NoVal
    /\ mphase = [r \in Records |-> NoVal]
    /\ mcal = [r \in Records |-> NoVal]
    /\ proc = "ready"
    /\ ret = NoVal
    /\ delivered = [phase |-> [r \in Records |-> NoVal],
                    cal   |-> [r \in Records |-> NoVal]]
    /\ ConvIdle /\ HuntIdle /\ SimIdle /\ ThrIdle

\* time passes between two calls
Tick ==
    /\ proc = "ready"
    /\ \E c \in ClockTimes :
          /\ c.days > clock.days \/ (c.days = clock.days /\ c.secs > clock.secs)
          /\ clock' = c
    /\ UNCHANGED <<tmbuf, mphase, mcal, proc, ret, delivered>>
    /\ UNCHANGED <<convVars, huntVars, simVars, thr, call>>

\* int moonphase(MoonPhase *mphase, const time_t *timestamp), called with the
\* address of record r
moonphase(r, timestamp) ==
    /\ proc = "ready"
    /\ ret' = [fn |-> "moonphase", rec |-> r,
               value |-> ReturnValue(gmtime(ChosenTime(timestamp, clock)))]
    /\ IF gmtime(ChosenTime(timestamp, clock)) = NULL
       THEN UNCHANGED <<tmbuf, mphase, delivered>>              \* return FALSE
       ELSE /\ tmbuf' = gmtime(ChosenTime(timestamp, clock))
            /\ mphase' = [mphase EXCEPT
                   ![r] = PhaseRecord(tmbuf', ChosenTime(timestamp, clock))]
            /\ delivered' = [delivered EXCEPT
                   !.phase[r] = [arg  |-> timestamp,
                                 view |-> ReadPhase(mphase'[r], tmbuf')]]
    /\ UNCHANGED <<clock, mcal, proc>>
    /\ UNCHANGED <<convVars, huntVars, simVars, thr, call>>

\* int mooncal(MoonCalendar *mcal, const time_t *timestamp), called with the
\* address of record r; phasehunt(jd + 0.5, phasar) either returns, or ends
\* the program, or keeps searching
mooncal(r, timestamp) ==
    /\ proc = "ready"
    /\ IF gmtime(ChosenTime(timestamp, clock)) = NULL
       THEN /\ ret' = [fn |-> "mooncal", rec |-> r,
                       value |-> ReturnValue(gmtime(ChosenTime(timestamp, clock)))]
            /\ UNCHANGED <<tmbuf, mcal, proc, delivered>>       \* return FALSE
       ELSE /\ tmbuf' = gmtime(ChosenTime(timestamp, clock))
            /\ \E h \in {HuntFor[JAdd(jtime(tmbuf'), 0, 500000)]} :
               IF h.end = "return"
               THEN /\ mcal' = [mcal EXCEPT ![r] = Calendar(h.phases)]
                    /\ delivered' = [delivered EXCEPT
                           !.cal[r] = [arg |-> timestamp, view |-> mcal'[r]]]
                    /\ ret' = [fn |-> "mooncal", rec |-> r,
                               value |-> ReturnValue(tmbuf')]  \* return TRUE
                    /\ UNCHANGED proc
               ELSE /\ proc' = IF h.end = "exit" THEN "exited" ELSE "searching"
                    /\ UNCHANGED <<mcal, ret, delivered>>
    /\ UNCHANGED <<clock, mphase>>
    /\ UNCHANGED <<convVars, huntVars, simVars, thr, call>>

ApiNext ==
    \/ Tick
    \/ \E r \in Records, a \in Stamps \cup {NULL} : moonphase(r, a)
    \/ \E r \in Records, a \in Stamps \cup {NULL} : mooncal(r, a)

Spec == ApiInit /\ [][ApiNext]_vars

(***************************************************************************)
(* The search routines called directly, as the test program calls them:    *)
(* truephase first, then phasehunt; nothing runs after exit().             *)
(***************************************************************************)
HuntIndexes == {1537, -3922}
Selectors == {-500, -5, 0, 9, 10, 100, 245, 250, 260, 491, 500, 750, 759, 1000}

HuntPivots == {100, 625000, 2299161, 2415021, 2449818, 2451545, 3000000, 4700000}
HuntDates ==
    {[d |-> p + i, u |-> u] :
        p \in HuntPivots, i \in (-HuntSpan)..HuntSpan, u \in {0, 300000, 800000}}

\* phasehunt(d, phasar) for each of the search dates, worked out once
HuntResults == [d \in HuntDates |-> phasehunt[d]]

HuntInit == HuntIdle /\ ConvIdle /\ ApiIdle /\ SimIdle /\ ThrIdle

TruephaseCall ==
    /\ tph = NoVal
    /\ \E k \in HuntIndexes, sel \in Selectors :
          tph' = [k |-> k, sel |-> sel, out |-> truephase[k, sel]]
    /\ UNCHANGED <<hdate, hres, convVars, apiVars, simVars, thr, call>>

PhasehuntCall ==
    /\ tph # NoVal /\ tph.out # ProgramExit
    /\ hres = NoVal
    /\ \E d \in HuntDates : hdate' = d /\ hres' = HuntResults[d]
    /\ UNCHANGED <<tph, convVars, apiVars, simVars, thr, call>>

HuntNext == TruephaseCall \/ PhasehuntCall

SpecHunt == HuntInit /\ [][HuntNext]_vars

(***************************************************************************)
(* The command line tool run time after time, each run a process of its    *)
(* own given a timestamp a quarter of a day after the previous one (the    *)
(* step moonsim.sh takes).                                                 *)
(***************************************************************************)

\* FMT_PHASE_TIME: the weekday, date and time written for a Julian date
fmt_phase_time(utime) ==
    [wday |-> jwday(utime), date |-> jyear(utime), time |-> jhms(utime)]

\* the lunation printed on both lines is the one of the last new moon
NextLunation_same(lunation) == lunation

\* the number printed beside the next new moon: mcal->lunation + 1
NextLunation(lunation) == lunation + 1

\* print_mooncal(mcal): the five times and two lunation numbers written
print_mooncal(c) ==
    [last_new_moon |-> fmt_phase_time(c.last_new_moon),
     lunation      |-> c.lunation,
     first_quarter |-> fmt_phase_time(c.first_quarter),
     full_moon     |-> fmt_phase_time(c.full_moon),
     last_quarter  |-> fmt_phase_time(c.last_quarter),
     next_new_moon |-> fmt_phase_time(c.next_new_moon),
     next_lunation |-> NextLunation(c.lunation)]

\* first timestamps of the walks: moonsim.sh's 794058669, the test suite's
\* 794886000, midnights of 1582-10, 1900-01, 1970-01, 2000-01, 2024-01,
\* 2100-01, and 31 days before the largest time_t, where gmtime fails
SimStarts == {TimeT(9190, 42669), TimeT(9200, 6000), TimeT(-141430, 0),
              TimeT(-25567, 0), TimeT(0, 0), TimeT(10957, 0),
              TimeT(19723, 0), TimeT(47482, 0),
              [TimeTMax EXCEPT !.days = @ - 31]}

SimInit ==
    /\ simt \in SimStarts
    /\ runs = 0
    /\ trail = [prev |-> NoVal, cur |-> NoVal]
    /\ simcal = [prev |-> NoVal, cur |-> NoVal]
    /\ shown = NoVal
    /\ ConvIdle /\ HuntIdle /\ ApiIdle /\ ThrIdle

\* what a print routine does with a record nothing was stored in: it reads
\* indeterminate values and follows an indeterminate utc_datetime pointer
UnfilledPrints == {"crash", "garbage"}

\* for_custom_timestamp(timestamp): moonphase and mooncal for the timestamp,
\* their return values dropped, then the two printouts of the two local
\* records; the next run is a quarter of a day later.
for_custom_timestamp ==
    /\ runs < SimRuns
    /\ IF gmtime(simt) # NULL
       THEN /\ trail' = [prev |-> trail.cur,
                         cur  |-> [julian_date |->
                                       PhaseRecord(gmtime(simt), simt).julian_date,
                                   hunt |-> phasehunt[JAdd(jtime(gmtime(simt)),
                                                           0, 500000)]]]
            /\ trail'.cur.hunt.end = "return"
            /\ simcal' = [prev |-> simcal.cur,
                          cur  |-> Calendar(trail'.cur.hunt.phases)]
            /\ shown' = print_mooncal(simcal'.cur)
       ELSE /\ \E o \in UnfilledPrints :
                  shown' = [moonphase |-> ReturnValue(gmtime(simt)),
                            mooncal   |-> ReturnValue(gmtime(simt)),
                            passed    |-> {"mphase", "mcal"},
                            outcome   |-> o]
            /\ UNCHANGED <<trail, simcal>>
    /\ simt' = AddSeconds(simt, 21600)
    /\ runs' = runs + 1
    /\ UNCHANGED <<convVars, huntVars, apiVars, thr, call>>

SimNext == for_custom_timestamp

SpecSim == SimInit /\ [][SimNext]_vars

(***************************************************************************)
(* Threads calling the entry points with no coordination.  A call is two   *)
(* steps: up to gmtime's return (the static struct tm is written), and     *)
(* from jtime on (the struct tm is read through the returned pointer).     *)
(***************************************************************************)
Threads == 1..NumThreads
ThreadStamps == {TimeT(9200, 6000), TimeT(9190, 42669)}

\* what the call op(&record, &t) leaves in the record when it runs alone
Alone(op, t) ==
    IF op = "moonphase" THEN ReadPhase(PhaseRecord(gmtime(t), t), gmtime(t))
    ELSE Calendar(HuntFor[JAdd(jtime(gmtime(t)), 0, 500000)].phases)

ThreadInit ==
    /\ thr = [th \in Threads |-> [pc |-> "idle"]]
    /\ call = NoVal
    /\ tmbuf = NoVal
    /\ clock = NoVal /\ mphase = NoVal /\ mcal = NoVal /\ proc = NoVal
    /\ ret = NoVal /\ delivered = NoVal
    /\ ConvIdle /\ HuntIdle /\ SimIdle

\* thread th enters op with timestamp t and runs up to gmtime's return
ThreadEnter(th) ==
    /\ thr[th].pc = "idle"
    /\ \E op \in {"moonphase", "mooncal"}, t \in ThreadStamps :
          /\ thr' = [thr EXCEPT ![th] = [pc |-> "converted", op |-> op, t |-> t]]
          /\ tmbuf' = gmtime(t)
    /\ UNCHANGED <<clock, mphase, mcal, proc, ret, delivered>>
    /\ UNCHANGED <<convVars, huntVars, simVars, call>>

\* thread th runs from jtime(gm) to the return, filling its own record
ThreadFill(th) ==
    /\ thr[th].pc = "converted"
    /\ thr' = [thr EXCEPT ![th] =
          [pc |-> "done", op |-> thr[th].op, t |-> thr[th].t,
           out |-> IF thr[th].op = "moonphase"
                   THEN ReadPhase(PhaseRecord(tmbuf, thr[th].t), tmbuf)
                   ELSE Calendar(HuntFor[JAdd(jtime(tmbuf), 0, 500000)].phases)]]
    /\ UNCHANGED <<clock, tmbuf, mphase, mcal, proc, ret, delivered>>
    /\ UNCHANGED <<convVars, huntVars, simVars, call>>

ThreadNext == \E th \in Threads : ThreadEnter(th) \/ ThreadFill(th)

SpecThreads == ThreadInit /\ [][ThreadNext]_vars

(***************************************************************************)
(* The calendar in force: Julian through 1582-10-04, Gregorian from        *)
(* 1582-10-15.  This is the domain the conversion inputs are drawn from.   *)
(***************************************************************************)
IsLeap(y) == IF y <= 1582 THEN y % 4 = 0
             ELSE (y % 4 = 0 /\ y % 100 # 0) \/ y % 400 = 0

DaysInMonth(y, m) ==
    IF m = 2 THEN (IF IsLeap(y) THEN 29 ELSE 28)
    ELSE IF m \in {4, 6, 9, 11} THEN 30 ELSE 31

ValidDay(y, m, d) ==
    /\ m \in 1..12
    /\ d \in 1..DaysInMonth(y, m)
    /\ ~(y = 1582 /\ m = 10 /\ d \in 5..14)

\* at or after Julian Date 0 = -4712-01-01 12:00:00
AfterJDZero(y, m, d, secs) ==
    y > -4712 \/ (y = -4712 /\ (m > 1 \/ d > 1 \/ secs >= 43200))

PivotYears == {-4711, -1000, 0, 1500, 1582, 1600, 1700, 1900, 1995, 2000, 2100, 9000}
ConvYears == UNION {(p - YearSpan)..(p + YearSpan) : p \in PivotYears}
ConvSecs == {0, 1, 3599, 34560, 43199, 43200, 43201, 86399}

CivilInputs ==
    {[year |-> y, mon |-> m, mday |-> d, secs |-> s] :
        y \in ConvYears, m \in 1..12, d \in 1..31, s \in ConvSecs}

(***************************************************************************)
(* Conversion run: ucttoj, then jyear and jhms on its result.              *)
(***************************************************************************)
ConvInit ==
    /\ civil \in {x \in CivilInputs :
                     /\ ValidDay(x.year, x.mon, x.mday)
                     /\ AfterJDZero(x.year, x.mon, x.mday, x.secs)}
    /\ jdv = NoVal
    /\ decoded = NoVal
    /\ HuntIdle /\ ApiIdle /\ SimIdle /\ ThrIdle

Convert ==
    /\ jdv = NoVal
    /\ jdv' = ucttoj(civil.year, civil.mon - 1, civil.mday,
                     civil.secs \div 3600, (civil.secs \div 60) % 60,
                     civil.secs % 60)
    /\ UNCHANGED <<civil, decoded, huntVars, apiVars, simVars, thr, call>>

Decode ==
    /\ jdv # NoVal
    /\ decoded = NoVal
    /\ decoded' = [date |-> jyear(jdv), time |-> jhms(jdv)]
    /\ UNCHANGED <<civil, jdv, huntVars, apiVars, simVars, thr, call>>

ConvNext == Convert \/ Decode

SpecConv == ConvInit /\ [][ConvNext]_vars

(***************************************************************************)
(* Internal routines called directly, one call at a time, as the test      *)
(* program calls them.                                                     *)
(***************************************************************************)

\* const double day_frac = (1 / synmonth) * 0.75, in millionths of a
\* lunation and rounded down: 25397 of 25397.39...
day_frac == FloorLunations[JD(750000, 0)]

\* the buckets cut at the eighths of the lunation, with no tolerance
fraction_of_lunation_to_phase_eighths(p) ==
    IF p < 0 \/ p >= Micro THEN 0 ELSE (p * 8) \div Micro

\* fraction_of_lunation_to_phase(p), p in millionths of a lunation.  The
\* thresholds c - day_frac and c + day_frac are no whole numbers of
\* millionths: p < c - 25397.39 is p < c - 25397, and p < c + 25397.39 is
\* p <= c + 25397.
fraction_of_lunation_to_phase(p) ==
    IF p <= 0 + day_frac THEN 0
    ELSE IF p < 250000 - day_frac THEN 1
    ELSE IF p <= 250000 + day_frac THEN 2
    ELSE IF p < 500000 - day_frac THEN 3
    ELSE IF p <= 500000 + day_frac THEN 4
    ELSE IF p < 750000 - day_frac THEN 5
    ELSE IF p <= 750000 + day_frac THEN 6
    ELSE IF p < 1000000 - day_frac THEN 7
    ELSE 0

\* fractions of lunation: the quarter points, the values just inside and
\* just outside the tolerance around them, the middles of the buckets, and
\* values outside 0..1
PhaseFractions ==
    {c + o : c \in {0, 250000, 500000, 750000, 1000000},
             o \in {-125000, -100000, -25399, -25398, -25397, -25396, -1, 0,
                    1, 25396, 25397, 25398, 25399, 100000, 125000}}
    \cup {-1000000, 1500000, 2000000}

\* Julian dates jwday is called for first: 2439912.0 of the test program,
\* a date around JD 0, and dates before JD 0 (the last new moon mooncal
\* reports for the timestamp -220000000000 is -105769.22138)
WeekStarts ==
    {[d |-> d, u |-> u] : d \in {-105770, -10, -4, 2439912, 2449787},
                          u \in {0, 221380, 500000, 800000, 881944}}

CallInit == call = NoVal /\ thr = NoVal /\ ConvIdle /\ HuntIdle /\ ApiIdle /\ SimIdle

FractionCall ==
    /\ call = NoVal
    /\ \E p \in PhaseFractions :
          call' = [fn |-> "fraction_of_lunation_to_phase", arg |-> p,
                   out |-> fraction_of_lunation_to_phase(p)]
    /\ UNCHANGED <<convVars, huntVars, apiVars, simVars, thr>>

\* the first of a row of calls of jwday
JwdayCall ==
    /\ call = NoVal
    /\ \E j \in WeekStarts :
          call' = [fn |-> "jwday", arg |-> j, out |-> jwday(j),
                   n |-> 1, before |-> NoVal]
    /\ UNCHANGED <<convVars, huntVars, apiVars, simVars, thr>>

\* jwday for the day after the one of the call before
JwdayNextDay ==
    /\ call # NoVal /\ call.fn = "jwday" /\ call.n < WeekDays
    /\ call' = [fn |-> "jwday", arg |-> JAdd(call.arg, 1, 0),
                out |-> jwday(JAdd(call.arg, 1, 0)),
                n |-> call.n + 1, before |-> call.out]
    /\ UNCHANGED <<convVars, huntVars, apiVars, simVars, thr>>

\* mean anomalies kepler is called with: the test program's 111.615376
\* degrees, every 7.5 degrees of two turns, and the values beside 0 and 360
KeplerAnomalies ==
    {11161538, 1, -1, Full - 1, Full + 1}
    \cup {750000 * i : i \in (-24)..72}

\* dates phase is called for: the test program's 2449818.7 and the Julian
\* date of 794886000, days of the lunation around them, dates far from
\* the epoch on both sides, and the instants around the new moon of Julian
\* date -937941.8013, where the age passes from 360 degrees to 0
PhaseDates ==
    {[d |-> 2449787 + i, u |-> 569444] : i \in 0..30}
    \cup {[d |-> -937942, u |-> 198705 + i] : i \in 0..20}
    \cup {[d |-> 2449818, u |-> 700000], [d |-> -105748, u |-> 203700],
          [d |-> 0, u |-> 0], [d |-> 2444238, u |-> 500000],
          [d |-> 2444238, u |-> 499999], [d |-> 4827551, u |-> 0]}

\* anomalies far from zero: 8631248594982.9189 degrees, where torad(m) is
\* 150643706540.58646 and the doubles lie 2^-15 apart, and 1e12 degrees,
\* where torad(m) is 17453292519.943295 and they lie 2^-18 apart
FarAnomalies ==
    {[rad |-> 389066542, ulp |-> 30517578], [rad |-> 488692066, ulp |-> 3814697]}

KeplerCall ==
    /\ call = NoVal
    /\ \/ \E m \in KeplerAnomalies :
             call' = [fn |-> "kepler",
                      arg |-> [rad |-> torad[m], ulp |-> NearZero],
                      out |-> kepler(m, eccent)]
       \/ \E m \in FarAnomalies :
             call' = [fn |-> "kepler", arg |-> m,
                      out |-> kepler_far(m.rad, m.ulp, eccent)]
    /\ UNCHANGED <<convVars, huntVars, apiVars, simVars, thr>>

PhaseCall ==
    /\ call = NoVal
    /\ \E d \in PhaseDates :
          \E out \in phase[d] :
             call' = [fn |-> "phase", arg |-> d, out |-> out]
    /\ UNCHANGED <<convVars, huntVars, apiVars, simVars, thr>>

\* the day after a valid calendar day, 1582-10-15 following 1582-10-04
NextDay(x) ==
    IF x.year = 1582 /\ x.mon = 10 /\ x.mday = 4
    THEN [x EXCEPT !.mday = 15]
    ELSE IF x.mday < DaysInMonth(x.year, x.mon)
    THEN [x EXCEPT !.mday = x.mday + 1]
    ELSE IF x.mon < 12
    THEN [x EXCEPT !.mon = x.mon + 1, !.mday = 1]
    ELSE [x EXCEPT !.year = x.year + 1, !.mon = 1, !.mday = 1]

RunYears ==
    {-4711, -1000, 0, 1, 4, 100, 1500, 1582, 1583, 1600, 1700, 1800, 1900,
     1995, 1996, 2000, 2100, 9999}

\* the days rows of ucttoj calls start at: the first day from year -4712 on,
\* and days shortly before the ends of years, of Februaries and of 30- and
\* 31-day months, before the leap days, before the calendar reform and
\* before the days whose Julian dates are 2^20 and 2^22
RunStarts ==
    {[year |-> -4712, mon |-> 1, mday |-> 1],
     [year |-> 1582, mon |-> 10, mday |-> 1],
     [year |-> 1582, mon |-> 10, mday |-> 3],
     [year |-> -1842, mon |-> 11, mday |-> 2],
     [year |-> 6771, mon |-> 7, mday |-> 4]}
    \cup {[year |-> y - 1, mon |-> 12, mday |-> 29] : y \in RunYears}
    \cup {[year |-> y, mon |-> 1, mday |-> 29] : y \in RunYears}
    \cup {[year |-> y, mon |-> 2, mday |-> 26] : y \in RunYears}
    \cup {[year |-> y, mon |-> m, mday |-> 28] : y \in {1582, 1900, 2000}, m \in 3..11}

RunSecs == {0, 43200, 86399}

UcttojOf(x, secs) ==
    ucttoj(x.year, x.mon - 1, x.mday,
           secs \div 3600, (secs \div 60) % 60, secs % 60)

(***************************************************************************)
(* ucttoj's result as the double it is.  A double is written                *)
(* [neg, int, frac]: its sign, the whole part of its magnitude and the      *)
(* first FracLen binary digits of the fraction of its magnitude.            *)
(***************************************************************************)
FracLen == 72

\* the first n binary digits of r / 86400, and the remainder left after them
DayBits[r \in Nat, n \in Nat] ==
    IF n = 0 THEN <<>>
    ELSE <<(2 * r) \div 86400>> \o DayBits[(2 * r) % 86400, n - 1]

DayRest[r \in Nat, n \in Nat] ==
    IF n = 0 THEN r ELSE DayRest[(2 * r) % 86400, n - 1]

\* the place of the first 1 among binary digits, past their end if none
FirstOne(bits) ==
    IF \E i \in 1..Len(bits) : bits[i] = 1
    THEN CHOOSE i \in 1..Len(bits) :
            bits[i] = 1 /\ \A j \in 1..(i - 1) : bits[j] = 0
    ELSE Len(bits) + 1

Log2[n \in Nat] == IF n <= 1 THEN 0 ELSE 1 + Log2[n \div 2]

\* 1 - 0.frac, for a fraction that is not 0
TwosComplement(frac) ==
    [i \in 1..Len(frac) |->
        IF \E j \in (i + 1)..Len(frac) : frac[j] = 1 THEN 1 - frac[i]
        ELSE frac[i]]

\* int + 0.frac (+ a rest below the last digit) rounded to `keep` digits of
\* fraction, to nearest and ties to even: IEEE 754 round-to-nearest
RoundAt(int, frac, rest, keep) ==
    IF keep >= Len(frac) THEN [int |-> int, frac |-> frac]
    ELSE IF ~ /\ frac[keep + 1] = 1
              /\ \/ rest # 0
                 \/ \E i \in (keep + 2)..Len(frac) : frac[i] = 1
                 \/ frac[keep] = 1
    THEN [int |-> int,
          frac |-> [i \in 1..Len(frac) |-> IF i <= keep THEN frac[i] ELSE 0]]
    ELSE IF \A i \in 1..keep : frac[i] = 1
    THEN [int |-> int + 1, frac |-> [i \in 1..Len(frac) |-> 0]]
    ELSE [int |-> int,
          frac |-> [i \in 1..Len(frac) |->
                      IF \E j \in (i + 1)..keep : frac[j] = 0 THEN frac[i]
                      ELSE IF i <= keep /\ frac[i] = 0 THEN 1
                      ELSE 0]]

\* the digits a double keeps of int + 0.frac: 53 from its first 1 on
Mantissa(int, frac) ==
    IF int >= 1 THEN 52 - Log2[int] ELSE FirstOne(frac) + 52

\* (sec + 60L * (min + 60L * hour)) / 86400.0
DayFraction(secs) ==
    RoundAt(0, DayBits[secs, FracLen], DayRest[secs, FracLen],
            Mantissa(0, DayBits[secs, FracLen])).frac

\* (whole + 0.5) + 0.f for whole >= -1: the sum ucttoj returns, whole + 0.5
\* being the days counted less 1524.5
DoubleSum(whole, f) ==
    IF whole >= 0
    THEN [neg |-> FALSE] @@
         RoundAt(whole + f[1], [f EXCEPT ![1] = 1 - f[1]], 0,
                 Mantissa(whole + f[1], [f EXCEPT ![1] = 1 - f[1]]))
    ELSE IF f[1] = 1
    THEN [neg |-> FALSE, int |-> 0, frac |-> [f EXCEPT ![1] = 0]]
    ELSE IF FirstOne(f) > Len(f)
    THEN [neg |-> TRUE, int |-> 0, frac |-> [f EXCEPT ![1] = 1]]
    ELSE [neg |-> TRUE] @@
         RoundAt(0, [TwosComplement(f) EXCEPT ![1] = 0], 0,
                 Mantissa(0, [TwosComplement(f) EXCEPT ![1] = 0]))

\* ucttoj's double for the day x at secs seconds after midnight
UcttojDouble(x, secs) ==
    DoubleSum(ucttoj(x.year, x.mon - 1, x.mday, 0, 0, 0).d, DayFraction(secs))

\* the first of a row of calls of ucttoj
UcttojCall ==
    /\ call = NoVal
    /\ \E x \in RunStarts, secs \in RunSecs :
          call' = [fn |-> "ucttoj", arg |-> x, secs |-> secs,
                   b |-> ucttoj_b(x.year, x.mon - 1, x.mday),
                   out |-> UcttojOf(x, secs), dbl |-> UcttojDouble(x, secs),
                   n |-> 1, before |-> NoVal]
    /\ UNCHANGED <<convVars, huntVars, apiVars, simVars, thr>>

\* ucttoj for the next calendar day at the same time of day
UcttojNextDay ==
    /\ call # NoVal /\ call.fn = "ucttoj" /\ call.n < DayRun
    /\ call' = [fn |-> "ucttoj", arg |-> NextDay(call.arg), secs |-> call.secs,
                b |-> ucttoj_b(NextDay(call.arg).year, NextDay(call.arg).mon - 1,
                               NextDay(call.arg).mday),
                out |-> UcttojOf(NextDay(call.arg), call.secs),
                dbl |-> UcttojDouble(NextDay(call.arg), call.secs),
                n |-> call.n + 1, before |-> call.dbl]
    /\ UNCHANGED <<convVars, huntVars, apiVars, simVars, thr>>

\* Julian dates handed to fmt_phase_time: the full moon of 4 August 5702
\* as mooncal returns it (3803888.499999118), and instants before, at and
\* after civil midnight, of both signs
PrintedDates ==
    {[d |-> d, u |-> u] :
        d \in {-1, 0, 2449787, 3803888},
        u \in {0, 250000, 499994, 499995, 499999, 500000, 500006, 999999}}

\* fmt_phase_time(utime, buf) called for one Julian date
FmtPhaseTimeCall ==
    /\ call = NoVal
    /\ \E j \in PrintedDates :
          call' = [fn |-> "fmt_phase_time", arg |-> j, out |-> fmt_phase_time(j)]
    /\ UNCHANGED <<convVars, huntVars, apiVars, simVars, thr>>

(***************************************************************************)
(* The command line tool's main.  An argument is a sequence of characters. *)
(***************************************************************************)
\* argv[1]: every string of at most MaxArg of the characters + - 0 5 h T,
\* --help, and the date of the test suite's instant
ArgStrings ==
    UNION {[1..n -> {"+", "-", "0", "5", "h", "T"}] : n \in 0..MaxArg}
    \cup {<<"-", "-", "h", "e", "l", "p">>,
          <<"1", "9", "9", "5", "-", "0", "3", "-", "1", "1">>}

\* character >= '0' && character <= '9'
is_digit(character) ==
    character \in {"0", "1", "2", "3", "4", "5", "6", "7", "8", "9"}

\* is_arg_timestamp's while (*arg) loop from position pos on: false at the
\* first character that is neither a digit nor a sign at position 0
RECURSIVE is_arg_timestamp_from(_, _)
is_arg_timestamp_from(arg, pos) ==
    IF pos >= Len(arg) THEN TRUE
    ELSE IF pos = 0 /\ (arg[pos + 1] = "+" \/ arg[pos + 1] = "-")
    THEN is_arg_timestamp_from(arg, pos + 1)
    ELSE IF ~is_digit(arg[pos + 1]) THEN FALSE
    ELSE is_arg_timestamp_from(arg, pos + 1)

is_arg_timestamp(arg) == is_arg_timestamp_from(arg, 0)

\* atol of the digits of arg from place i on, acc being the value so far
RECURSIVE atol_from(_, _, _)
atol_from(arg, i, acc) ==
    IF i > Len(arg) \/ ~is_digit(arg[i]) THEN acc
    ELSE atol_from(arg, i + 1,
                   10 * acc + (CHOOSE v \in 0..9 :
                                  arg[i] = <<"0", "1", "2", "3", "4", "5", "6",
                                             "7", "8", "9">>[v + 1]))

\* (time_t) atol(timestamp): an optional sign, then digits up to the first
\* character that is none; 0 when there is no digit
timestamp_str_to_timestamp(arg) ==
    IF Len(arg) >= 1 /\ arg[1] = "-" THEN -atol_from(arg, 2, 0)
    ELSE IF Len(arg) >= 1 /\ arg[1] = "+" THEN atol_from(arg, 2, 0)
    ELSE atol_from(arg, 1, 0)

\* datetime_str_to_timestamp: timegm of what strptime reads with
\* "%Y-%m-%d" or "%Y-%m-%dT%H:%M:%S"; NULL where it reads no date and the
\* tool exits.  Of the arguments above only 1995-03-11 is a date.
datetime_str_to_timestamp(arg) ==
    IF arg = <<"1", "9", "9", "5", "-", "0", "3", "-", "1", "1">>
    THEN TimeT(9200, 0)
    ELSE NULL

\* what for_custom_timestamp prints for each timestamp the arguments above
\* and the clock lead to, worked out once
MainPrints ==
    {<<t, [julian_date |-> PhaseRecord(gmtime(t), t).julian_date,
           calendar    |-> print_mooncal(
                              Calendar(phasehunt[JAdd(jtime(gmtime(t)),
                                                      0, 500000)].phases))]>> :
        t \in {AddSeconds(TimeT(0, 0), timestamp_str_to_timestamp(arg)) :
                  arg \in {a \in ArgStrings : is_arg_timestamp(a)}}
              \cup {TimeT(9200, 0)} \cup ClockTimes}

\* what for_custom_timestamp prints for a timestamp gmtime accepts
PrintedFor(t) == (CHOOSE p \in MainPrints : p[1] = t)[2]

\* main(argc, argv) with one argument
MainCall ==
    /\ call = NoVal
    /\ \E arg \in ArgStrings :
          call' =
            IF arg = <<"-", "-", "h", "e", "l", "p">> \/ arg = <<"-", "h">>
            THEN [fn |-> "main", arg |-> arg, route |-> "print_help",
                  is_timestamp |-> NoVal, timestamp |-> NoVal, out |-> NoVal]
            ELSE IF is_arg_timestamp(arg)
            THEN [fn |-> "main", arg |-> arg, route |-> "timestamp_str_to_timestamp",
                  is_timestamp |-> [value |-> is_arg_timestamp(arg)],
                  timestamp |-> AddSeconds(TimeT(0, 0), timestamp_str_to_timestamp(arg)),
                  out |-> PrintedFor(AddSeconds(TimeT(0, 0),
                                                timestamp_str_to_timestamp(arg)))]
            ELSE IF datetime_str_to_timestamp(arg) = NULL
            THEN [fn |-> "main", arg |-> arg, route |-> "datetime_str_to_timestamp",
                  is_timestamp |-> [value |-> is_arg_timestamp(arg)],
                  timestamp |-> NoVal, out |-> ProgramExit]
            ELSE [fn |-> "main", arg |-> arg, route |-> "datetime_str_to_timestamp",
                  is_timestamp |-> [value |-> is_arg_timestamp(arg)],
                  timestamp |-> datetime_str_to_timestamp(arg),
                  out |-> PrintedFor(datetime_str_to_timestamp(arg))]
    /\ UNCHANGED <<convVars, huntVars, apiVars, simVars, thr>>

\* main with no argument: for_now prints for the current time
MainNow ==
    /\ call = NoVal
    /\ \E now \in ClockTimes :
          call' = [fn |-> "main", arg |-> NoVal, route |-> "for_now",
                   is_timestamp |-> NoVal, timestamp |-> now,
                   out |-> PrintedFor(now)]
    /\ UNCHANGED <<convVars, huntVars, apiVars, simVars, thr>>

CallNext ==
    \/ FractionCall \/ JwdayCall \/ JwdayNextDay \/ KeplerCall \/ PhaseCall
    \/ UcttojCall \/ UcttojNextDay \/ FmtPhaseTimeCall
    \/ MainCall \/ MainNow

SpecCalls == CallInit /\ [][CallNext]_vars

(***************************************************************************)
(* C1: for every valid civil UTC date-time at or after Julian Date 0,      *)
(* ucttoj followed by jyear and jhms gives back the same year, month and   *)
(* day, and a time of day within one second of the original.               *)
(***************************************************************************)
C1_RoundTrip ==
    decoded # NoVal =>
        /\ decoded.date.yy = civil.year
        /\ decoded.date.mm = civil.mon
        /\ decoded.date.dd = civil.mday
        /\ Abs((decoded.time.h * 3600 + decoded.time.m * 60 + decoded.time.s)
               - civil.secs) <= 1

\* the first Gregorian day, one second before midnight, has been decoded
C1_Witness ==
    /\ decoded # NoVal
    /\ civil = [year |-> 1582, mon |-> 10, mday |-> 15, secs |-> 86399]
    /\ jdv = [d |-> 2299161, u |-> 499988]

(***************************************************************************)
(* C2: a record produced by one call is independent of every other result: *)
(* no later call to moonphase or mooncal changes any value readable        *)
(* through an earlier record, its UTC date-time included.  Everything      *)
(* readable through a filled record is what was readable through it when   *)
(* the call that filled it returned.                                       *)
(***************************************************************************)
C2_RecordsIndependent ==
    \A r \in Records :
        /\ delivered.phase[r] # NoVal =>
               ReadPhase(mphase[r], tmbuf) = delivered.phase[r].view
        /\ delivered.cal[r] # NoVal =>
               mcal[r] = delivered.cal[r].view

(***************************************************************************)
(* C3: threads may call moonphase and mooncal concurrently with no         *)
(* coordination: under every interleaving each finished call has put in    *)
(* its record exactly what it would have put there running alone with its  *)
(* own timestamp.                                                          *)
(***************************************************************************)
C3_ThreadsAsIfAlone ==
    \A th \in Threads :
        thr[th].pc = "done" => thr[th].out = Alone(thr[th].op, thr[th].t)

(***************************************************************************)
(* C4: two calls of moonphase (or of mooncal) with the same explicit       *)
(* timestamp deliver identical values in every field, whatever was called  *)
(* in between and whatever the clock shows; an explicit timestamp is the   *)
(* instant used, the clock is read only for a NULL argument.               *)
(***************************************************************************)
C4_SameStampSameResult ==
    \A r1, r2 \in Records :
        /\ (/\ delivered.phase[r1] # NoVal
            /\ delivered.phase[r2] # NoVal
            /\ delivered.phase[r1].arg # NULL
            /\ delivered.phase[r1].arg = delivered.phase[r2].arg)
           => /\ delivered.phase[r1].view = delivered.phase[r2].view
              /\ ReadPhase(mphase[r1], tmbuf) = ReadPhase(mphase[r2], tmbuf)
              /\ mphase[r1].utc_timestamp = delivered.phase[r1].arg
        /\ (/\ delivered.cal[r1] # NoVal
            /\ delivered.cal[r2] # NoVal
            /\ delivered.cal[r1].arg # NULL
            /\ delivered.cal[r1].arg = delivered.cal[r2].arg)
           => /\ delivered.cal[r1].view = delivered.cal[r2].view
              /\ mcal[r1] = mcal[r2]

\* both MoonPhase records and the second MoonCalendar record were filled
\* for 794886000, the clock has advanced since the start, and the last call
\* made was mooncal(&mcal[1], NULL)
C4_Witness ==
    /\ \A r \in {1, 2} :
          /\ delivered.phase[r] # NoVal
          /\ delivered.phase[r].arg = TimeT(9200, 6000)
    /\ delivered.cal[1] # NoVal /\ delivered.cal[1].arg = NULL
    /\ delivered.cal[2] # NoVal /\ delivered.cal[2].arg = TimeT(9200, 6000)
    /\ mcal[2].lunation = 893
    /\ clock = TimeT(20761, 3600)
    /\ tmbuf = gmtime(TimeT(20761, 3600))

(***************************************************************************)
(* C5: truephase(k, selector) terminates the program whenever the selector *)
(* is not within 0.01 of 0, 0.25, 0.5 or 0.75, and returns no value for    *)
(* such a selector.                                                        *)
(***************************************************************************)
C5_BadSelectorExits ==
    (tph # NoVal /\ \A c \in {0, 250, 500, 750} : Abs(tph.sel - c) >= 10)
        => tph.out = ProgramExit

(***************************************************************************)
(* C6: for every search date the five instants phasehunt returns (last new *)
(* moon, first quarter, full moon, last quarter, next new moon) are        *)
(* strictly increasing.                                                    *)
(***************************************************************************)
C6_PhasesIncrease ==
    (hres # NoVal /\ hres.end = "return")
        => \A i \in 0..3 : JLt(hres.phases[i], hres.phases[i + 1])

\* the test suite's phasehunt(2449818.3): lunation index 1178
C6_Witness ==
    /\ hres # NoVal /\ hres.end = "return"
    /\ hdate = [d |-> 2449818, u |-> 300000]
    /\ hres.k1 = 1178
    /\ hres.phases[0].d = 2449807 /\ hres.phases[4].d = 2449837

(***************************************************************************)
(* C7: for every search date d, phasehunt(d) returns phases with           *)
(* phases[0] <= d and d < phases[4]: the date lies between the returned    *)
(* last new moon and the returned next new moon.                           *)
(***************************************************************************)
C7_DateBetweenNewMoons ==
    (hres # NoVal /\ hres.end = "return")
        => JLe(hres.phases[0], hdate) /\ JLt(hdate, hres.phases[4])

(***************************************************************************)
(* C8: mooncal(t) returns the phases of the lunation whose mean-phase      *)
(* bracket [meanphase(k1), meanphase(k1 + 1)) contains the Julian date of  *)
(* the instant t itself, the julian_date moonphase reports for t.          *)
(***************************************************************************)
C8_BracketHoldsInstant ==
    trail.cur # NoVal =>
        /\ JLe(trail.cur.hunt.nt1, trail.cur.julian_date)
        /\ JLt(trail.cur.julian_date, trail.cur.hunt.nt2)

C10_LunationFormula ==
    simcal.cur # NoVal =>
        /\ JLe(SynTimes(simcal.cur.lunation - 1, 0),
               JAdd(simcal.cur.last_new_moon, 7 - 2423436, 0))
        /\ JLt(JAdd(simcal.cur.last_new_moon, 7 - 2423436, 0),
               SynTimes(simcal.cur.lunation, 0))
        /\ shown.lunation = simcal.cur.lunation
        /\ shown.next_lunation = simcal.cur.lunation + 1

\* the test suite's instant 794886000: last new moon 2449777.993, lunation
\* 893, and 894 printed beside the next new moon
C10_Witness ==
    /\ trail.cur # NoVal
    /\ trail.cur.julian_date = [d |-> 2449787, u |-> 569444]
    /\ simcal.cur.last_new_moon.d = 2449777
    /\ simcal.cur.lunation = 893
    /\ shown.next_lunation = 894

\* ---- C11 ----
\* p lies within 0.75 / 29.530588 lunations of the point c, stated on the
\* product and not on the quotient the code computes
WithinTol(p, c) ==
    /\ Abs(p - c) < 100000
    /\ JLe(SynTimes(Abs(p - c), 0), JD(750000, 0))

\* C11: fraction_of_lunation_to_phase(p) is an index in 0..7 for every p;
\* p within the tolerance of 0 or of 1.0 gives New (0), of 0.25 First
\* Quarter (2), of 0.5 Full (4), of 0.75 Last Quarter (6); the values
\* between two of these points, outside both tolerances, give 1, 3, 5 and 7;
\* and p exactly 0, 0.25, 0.5, 0.75, 1.0 give 0, 2, 4, 6, 0.
C11_PhaseBuckets ==
    (call # NoVal /\ call.fn = "fraction_of_lunation_to_phase") =>
        /\ call.out \in 0..7
        /\ (WithinTol(call.arg, 0) \/ WithinTol(call.arg, 1000000)) => call.out = 0
        /\ \A q \in 1..3 : WithinTol(call.arg, q * 250000) => call.out = 2 * q
        /\ \A q \in 0..3 :
              (/\ q * 250000 < call.arg /\ call.arg < (q + 1) * 250000
               /\ ~WithinTol(call.arg, q * 250000)
               /\ ~WithinTol(call.arg, (q + 1) * 250000))
              => call.out = 2 * q + 1
        /\ \A q \in 0..4 : call.arg = q * 250000 => call.out = (2 * q) % 8

\* the last fraction still inside the tolerance above 0.25 is a First Quarter
C11_Witness ==
    /\ call # NoVal /\ call.fn = "fraction_of_lunation_to_phase"
    /\ call.arg = 250000 + 25397
    /\ call.out = 2

\* ---- C12 ----
\* C12: the two conversions agree on the calendar-reform cutover.  ucttoj
\* gives 2299160.0 for 1582-10-04 12:00:00 and 2299161.0 for 1582-10-15
\* 12:00:00; jyear decodes Julian date 2299160.0 as 1582-10-04 and
\* 2299160.9 as 1582-10-15, not as 1582-10-05.
C12_ReformCutover ==
    /\ (jdv # NoVal /\ civil = [year |-> 1582, mon |-> 10, mday |-> 4, secs |-> 43200])
          => jdv = [d |-> 2299160, u |-> 0]
    /\ (jdv # NoVal /\ civil = [year |-> 1582, mon |-> 10, mday |-> 15, secs |-> 43200])
          => jdv = [d |-> 2299161, u |-> 0]
    /\ (decoded # NoVal /\ jdv = [d |-> 2299160, u |-> 0])
          => decoded.date = [yy |-> 1582, mm |-> 10, dd |-> 4]
    /\ (decoded # NoVal /\ jdv = [d |-> 2299160, u |-> 900000])
          => decoded.date = [yy |-> 1582, mm |-> 10, dd |-> 15]

\* Julian date 2299160.9, reached from 1582-10-15 09:36:00, has been decoded
C12_Witness ==
    /\ decoded # NoVal
    /\ civil = [year |-> 1582, mon |-> 10, mday |-> 15, secs |-> 34560]
    /\ jdv = [d |-> 2299160, u |-> 900000]
    /\ decoded.date.dd = 15

\* ---- C13 ----
\* C13: jwday(jd) equals floor(jd + 1.5) mod 7 and lies in 0..6, for every
\* Julian date jd, positive or negative.
C13_WeekdayFormula ==
    (call # NoVal /\ call.fn = "jwday") =>
        /\ call.out \in 0..6
        /\ call.out = JAdd(call.arg, 1, 500000).d % 7

\* ---- C14 ----
\* C14: along seven consecutive dates j, j+1, ..., j+6 the day of the week
\* advances cyclically, jwday(j+1) = (jwday(j) + 1) mod 7, so that each of
\* 0..6 comes exactly once.
C14_WeekdayCycle ==
    (call # NoVal /\ call.fn = "jwday" /\ call.n > 1) =>
        /\ call.out \in 0..6
        /\ call.out = (call.before + 1) % 7

\* ---- C15 ----
\* C15: moonphase and mooncal return 1 exactly when they have filled the
\* caller's record, and 0 exactly when gmtime fails; when they return 0 no
\* record of the caller is written.
C15_ReturnTellsOutcome ==
    [][\A r \in Records, a \in Stamps \cup {NULL} :
          /\ moonphase(r, a) =>
                /\ (ret'.value = 0) <=> (gmtime(ChosenTime(a, clock)) = NULL)
                /\ (ret'.value = 1) <=>
                      (/\ gmtime(ChosenTime(a, clock)) # NULL
                       /\ mphase'[r] = PhaseRecord(gmtime(ChosenTime(a, clock)),
                                                   ChosenTime(a, clock)))
                /\ (ret'.value = 0) => (mphase' = mphase /\ mcal' = mcal)
          /\ (mooncal(r, a) /\ proc' = "ready") =>
                /\ (ret'.value = 0) <=> (gmtime(ChosenTime(a, clock)) = NULL)
                /\ (ret'.value = 1) <=>
                      (/\ gmtime(ChosenTime(a, clock)) # NULL
                       /\ mcal'[r] = Calendar(HuntFor[JAdd(
                              jtime(gmtime(ChosenTime(a, clock))), 0, 500000)].phases))
                /\ (ret'.value = 0) => (mphase' = mphase /\ mcal' = mcal)
    ]_vars

\* a call of moonphase has returned 0 on a record an earlier call had filled
C15_Witness ==
    /\ ret # NoVal
    /\ ret.fn = "moonphase"
    /\ ret.value = 0
    /\ mphase[ret.rec] # NoVal
    /\ delivered.phase[ret.rec].arg # TimeTMax

\* ---- C16 ----
\* C16: the only failure is the fatal selector exit of truephase: for every
\* timestamp a call of moonphase or mooncal completes and delivers a fully
\* populated record, so no call is left searching and every call that has
\* returned has returned 1 with its record filled.
C16_OnlySelectorFailure ==
    /\ proc \in {"ready", "exited"}
    /\ ret # NoVal =>
          /\ ret.value = 1
          /\ ret.fn = "moonphase" => mphase[ret.rec] # NoVal
          /\ ret.fn = "mooncal" => mcal[ret.rec] # NoVal

\* ---- C17 ----
\* C17: the fatal selector path of truephase is not reached from phasehunt:
\* the selectors phasehunt passes are 0.0, 0.25, 0.5 and 0.75, so no search
\* ends in truephase's exit.
C17_HuntNeverExits ==
    hres # NoVal => hres.end # "exit"

\* a search far from the epoch has returned its five phases
C17_Witness ==
    /\ hres # NoVal /\ hres.end = "return"
    /\ hdate = [d |-> 4700000, u |-> 800000]
    /\ \A i \in 0..4 : hres.phases[i] # ProgramExit

\* ---- C18 ----
\* C18: for every Julian date phase yields a fraction of lunation f with
\* 0 <= f < 1 and an age of the Moon with 0 <= age < synmonth days, and
\* age = synmonth * f (here to two millionths of a day).
C18_FractionAndAge ==
    (call # NoVal /\ call.fn = "phase") =>
        /\ 0 <= call.out.p /\ call.out.p < Micro
        /\ 0 <= call.out.mage
        /\ call.out.mage < synmonth.d * Micro + synmonth.u
        /\ Abs(call.out.mage
               - (SynTimes(0, call.out.p \div 1000).d * Micro
                  + SynTimes(0, call.out.p \div 1000).u
                  + ((call.out.p % 1000) * 29531) \div 1000)) <= 2

\* ---- C19 ----
\* C19: every call of mooncal completes: phasehunt's bracket search leaves
\* its loop for every search date, so no call is left in the loop.
C19_MooncalCompletes ==
    proc # "searching"

\* ---- C20 ----
\* C20: kepler(m, ecc) terminates for the eccentricity 0.016718 and every
\* mean anomaly m, and the eccentric anomaly E it returns satisfies
\* |E - ecc * sin(E) - M| < 1e-6, M being m in radians.
C20_KeplerSolves ==
    (call # NoVal /\ call.fn = "kepler") =>
        /\ call.out.end = "return"
        /\ Abs(UlpTimes(KeplerDelta(call.arg.rad, call.out.k, eccent, call.arg.ulp),
                        call.arg.ulp)) < EPSILON

C22_CivilYearCentury ==
    (call # NoVal /\ call.fn = "ucttoj")
        => call.b =
             IF \/ call.arg.year < 1582
                \/ call.arg.year = 1582 /\ call.arg.mon < 10
                \/ call.arg.year = 1582 /\ call.arg.mon = 10 /\ call.arg.mday < 5
             THEN 0
             ELSE 2 - FloorDiv(call.arg.year, 100)
                    + FloorDiv(FloorDiv(call.arg.year, 100), 4)

\* C22 amended: b = 0 for every date before 1582-10-05, and for every date
\* on or after it b = 2 - a + floor(a/4) with a = floor(y/100), where y is
\* the civil year less one in January and February and the civil year in
\* the other months.
C22_CountedYearCentury ==
    (call # NoVal /\ call.fn = "ucttoj")
        => call.b =
             IF \/ call.arg.year < 1582
                \/ call.arg.year = 1582 /\ call.arg.mon < 10
                \/ call.arg.year = 1582 /\ call.arg.mon = 10 /\ call.arg.mday < 5
             THEN 0
             ELSE 2 - FloorDiv(call.arg.year - (IF call.arg.mon <= 2 THEN 1 ELSE 0), 100)
                    + FloorDiv(FloorDiv(call.arg.year - (IF call.arg.mon <= 2 THEN 1 ELSE 0), 100), 4)

\* ucttoj was called for 1 February 1900, whose correction is that of 1899
C22_Witness ==
    /\ call # NoVal /\ call.fn = "ucttoj"
    /\ call.arg = [year |-> 1900, mon |-> 2, mday |-> 1]
    /\ call.b = -12
    /\ call.secs = 0 /\ call.out = JD(2415051, 500000)

\* ---- C23 ----
\* the time truephase(k, sel) has when the new/full series alone is added to
\* the mean time, and when the quarter series and `sign` times the first
\* quarter term are
NewFullTime(k, sel) ==
    JAdd(MeanTime[TrueArgs[k, sel].t, k, sel], 0,
         NewFullTerms[TrueArgs[k, sel].t, TrueArgs[k, sel].m,
                      TrueArgs[k, sel].mprime, TrueArgs[k, sel].f]
             \div (SinScale \div 10))

QuarterTime(k, sel, sign) ==
    JAdd(MeanTime[TrueArgs[k, sel].t, k, sel], 0,
         QuarterTerms[TrueArgs[k, sel].t, TrueArgs[k, sel].m,
                      TrueArgs[k, sel].mprime, TrueArgs[k, sel].f]
             \div (SinScale \div 10)
         + sign * QuarterShift[TrueArgs[k, sel].m, TrueArgs[k, sel].mprime])

\* C23: a call of truephase that returns has applied exactly one correction
\* series: the new/full series when the selector is within 0.01 of 0 or of
\* 0.5, the quarter series when it is within 0.01 of 0.25 or of 0.75, with
\* the first quarter term when the selector is below 0.5 and the last
\* quarter term otherwise.
C23_OneSeriesPerCall ==
    (tph # NoVal) =>
        /\ (Abs(tph.sel) < 10 \/ Abs(tph.sel - 500) < 10)
              => tph.out = NewFullTime(tph.k, tph.sel)
        /\ (Abs(tph.sel - 250) < 10)
              => tph.out = QuarterTime(tph.k, tph.sel, 1)
        /\ (Abs(tph.sel - 750) < 10)
              => tph.out = QuarterTime(tph.k, tph.sel, -1)
        /\ (tph.out # ProgramExit)
              => \/ tph.out = NewFullTime(tph.k, tph.sel)
                 \/ tph.out = QuarterTime(tph.k, tph.sel,
                                          IF tph.sel < 500 THEN 1 ELSE -1)

\* truephase returned a last quarter: the quarter series with the last
\* quarter term, which is neither the first quarter's nor the new/full time
C23_Witness ==
    /\ tph # NoVal /\ tph.k = 1537 /\ tph.sel = 750
    /\ tph.out = QuarterTime(1537, 750, -1)
    /\ tph.out # QuarterTime(1537, 750, 1)
    /\ tph.out # NewFullTime(1537, 750)
    /\ tph.out.d = 2460431 /\ Abs(tph.out.u - 977686) < 20

\* ---- C24 ----
\* Unix timestamps of both signs: the days around 1582-10-05 and 1582-10-15
\* of gmtime's calendar, around 1970-01-01, 0000-01-01 and Julian date 0,
\* at three times of day
EpochStamps ==
    {TimeT(d, s) :
        d \in {-2440589, -2440588, -719529, -719528, -141439, -141438, -141437,
               -141436, -141428, -141427, -25567, -1, 0, 1, 9200},
        s \in {0, 43200, 86399}}

\* moonphase called with explicit timestamps of both signs
EpochNext == \E r \in Records, t \in EpochStamps : moonphase(r, t)

SpecEpochs == ApiInit /\ [][EpochNext]_vars

\* C24: the julian_date moonphase stores for the timestamp t is
\* 2440587.5 + t / 86400 (to the millionth of a day), negative timestamps
\* included, and of two timestamps the later has the later julian_date.
C24_JulianDateOfStamp ==
    /\ \A r \in Records :
          (mphase[r] # NoVal) =>
             \E x \in {JAdd(JD(2440587, 500000), mphase[r].utc_timestamp.days,
                            (mphase[r].utc_timestamp.secs * Micro) \div 86400)} :
                /\ JLe(JAdd(x, 0, -1), mphase[r].julian_date)
                /\ JLe(mphase[r].julian_date, JAdd(x, 0, 1))
    /\ \A r1, r2 \in Records :
          (/\ mphase[r1] # NoVal /\ mphase[r2] # NoVal
           /\ \/ mphase[r1].utc_timestamp.days < mphase[r2].utc_timestamp.days
              \/ /\ mphase[r1].utc_timestamp.days = mphase[r2].utc_timestamp.days
                 /\ mphase[r1].utc_timestamp.secs < mphase[r2].utc_timestamp.secs)
             => JLt(mphase[r1].julian_date, mphase[r2].julian_date)

\* ---- C25 ----
\* the digits lo..hi of a fraction, read as a number
DigitsValue(frac, lo, hi) ==
    LET RECURSIVE Upto(_)
        Upto(i) == IF i < lo THEN 0 ELSE 2 * Upto(i - 1) + frac[i]
    IN  Upto(hi)

\* the double a plus exactly one day, for a >= -0.5
OneDayOn(a) ==
    IF a.neg THEN [neg |-> FALSE, int |-> 0, frac |-> TwosComplement(a.frac)]
    ELSE [neg |-> FALSE, int |-> a.int + 1, frac |-> a.frac]

\* the doubles a and b are less than 2^-30 (9.4e-10) apart
NearDoubles(a, b) ==
    /\ a.neg = b.neg
    /\ Abs(b.int - a.int) <= 1
    /\ \E e \in {(b.int - a.int) * 16777216
                   + DigitsValue(b.frac, 1, 24) - DigitsValue(a.frac, 1, 24)} :
          /\ Abs(e) <= 1
          /\ Abs(e * 16777216 + DigitsValue(b.frac, 25, 48)
                              - DigitsValue(a.frac, 25, 48)) < 262144

C26_HourBelow24 ==
    (call # NoVal /\ call.fn = "fmt_phase_time")
        => /\ call.out.time.h \in 0..23
           /\ call.out.time.m \in 0..59
           /\ call.out.time.s \in 0..59

\* ---- C27 ----
\* C27: when the search of one run stops at index k1 and the search of the
\* next run stops at index k1 + 1, the next_new_moon of the first run's
\* calendar equals the last_new_moon of the second run's calendar.
C27_SharedNewMoon ==
    (/\ trail.prev # NoVal /\ trail.cur # NoVal
     /\ trail.cur.hunt.k1 = trail.prev.hunt.k1 + 1)
        => simcal.prev.next_new_moon = simcal.cur.last_new_moon

\* two runs in a row whose searches stopped at adjacent indexes, the later
\* calendar's lunation beginning at the instant the earlier one's ends
C27_Witness ==
    /\ trail.prev # NoVal /\ trail.cur # NoVal
    /\ trail.cur.hunt.k1 = trail.prev.hunt.k1 + 1
    /\ trail.prev.hunt.k2 = trail.cur.hunt.k1
    /\ simcal.prev.next_new_moon = simcal.cur.last_new_moon
    /\ simcal.cur.lunation = simcal.prev.lunation + 1
    /\ JLt(simcal.prev.last_new_moon, simcal.cur.last_new_moon)

\* ---- C28 ----
(***************************************************************************)
(* The two print routines called on the callers' records.  `shown` holds   *)
(* the process's time zone, the text of the last printout, what was        *)
(* readable through the printed record before and after it, and the        *)
(* printout before the last.                                               *)
(***************************************************************************)
\* the offsets from UTC, in seconds, of the time zones a process runs in
TimeZones == {0, 18000}

\* localtime(&t) in the zone `zone`; it fills the struct tm gmtime fills
localtime(t, zone) == gmtime(AddSeconds(t, zone))

\* print_moonphase(mphase) for the record p while the static struct tm
\* holds buf: the lines written (those of the fields phase() computed are
\* represented by julian_date) and the static struct tm afterwards
print_moonphase(p, buf, zone) ==
    [text |-> [julian_date |-> p.julian_date,
               universal   |-> ReadPhase(p, buf).utc_datetime,
               local       |-> localtime(p.utc_timestamp, zone)],
     tm   |-> localtime(p.utc_timestamp, zone)]

NothingShown(zone) ==
    [tz |-> zone, fn |-> "none", rec |-> 0, text |-> NoVal,
     before |-> NoVal, after |-> NoVal, prev |-> NoVal]

LastShown == [fn |-> shown.fn, rec |-> shown.rec, text |-> shown.text,
              after |-> shown.after]

PrintInit ==
    /\ clock = TimeT(20761, 0)
    /\ tmbuf = NoVal
    /\ mphase = [r \in Records |-> NoVal]
    /\ mcal = [r \in Records |-> NoVal]
    /\ proc = "ready"
    /\ ret = NoVal
    /\ delivered = [phase |-> [r \in Records |-> NoVal],
                    cal   |-> [r \in Records |-> NoVal]]
    /\ simt = NoVal /\ runs = 0 /\ trail = NoVal /\ simcal = NoVal
    /\ shown \in {NothingShown(z) : z \in TimeZones}
    /\ ConvIdle /\ HuntIdle /\ ThrIdle

\* print_moonphase(&record r), the record filled by an earlier moonphase
PrintMoonphase(r) ==
    /\ proc = "ready"
    /\ mphase[r] # NoVal
    /\ tmbuf' = print_moonphase(mphase[r], tmbuf, shown.tz).tm
    /\ shown' = [tz |-> shown.tz, fn |-> "print_moonphase", rec |-> r,
                 text   |-> print_moonphase(mphase[r], tmbuf, shown.tz).text,
                 before |-> ReadPhase(mphase[r], tmbuf),
                 after  |-> ReadPhase(mphase[r], tmbuf'),
                 prev   |-> LastShown]
    /\ UNCHANGED <<clock, mphase, mcal, proc, ret, delivered>>
    /\ UNCHANGED <<convVars, huntVars, simt, runs, trail, simcal, thr, call>>

\* print_moonphase(NULL): a local record is filled for the current time by
\* init_moonphase and printed
PrintMoonphaseNow ==
    /\ proc = "ready"
    /\ IF gmtime(clock) = NULL
       THEN /\ proc' = "exited"
            /\ UNCHANGED <<tmbuf, shown>>
       ELSE /\ tmbuf' = print_moonphase(PhaseRecord(gmtime(clock), clock),
                                        gmtime(clock), shown.tz).tm
            /\ shown' = [tz |-> shown.tz, fn |-> "print_moonphase", rec |-> 0,
                         text   |-> print_moonphase(PhaseRecord(gmtime(clock), clock),
                                                    gmtime(clock), shown.tz).text,
                         before |-> NoVal, after |-> NoVal, prev |-> LastShown]
            /\ UNCHANGED proc
    /\ UNCHANGED <<clock, mphase, mcal, ret, delivered>>
    /\ UNCHANGED <<convVars, huntVars, simt, runs, trail, simcal, thr, call>>

\* print_mooncal(&record r), the record filled by an earlier mooncal
PrintMooncal(r) ==
    /\ proc = "ready"
    /\ mcal[r] # NoVal
    /\ shown' = [tz |-> shown.tz, fn |-> "print_mooncal", rec |-> r,
                 text   |-> print_mooncal(mcal[r]),
                 before |-> mcal[r], after |-> mcal[r],
                 prev   |-> LastShown]
    /\ UNCHANGED <<clock, tmbuf, mphase, mcal, proc, ret, delivered>>
    /\ UNCHANGED <<convVars, huntVars, simt, runs, trail, simcal, thr, call>>

PrintNext ==
    \/ \E r \in Records, t \in ThreadStamps : moonphase(r, t)
    \/ \E r \in Records : mooncal(r, TimeT(9200, 6000))
    \/ \E r \in Records : PrintMoonphase(r)
    \/ PrintMoonphaseNow
    \/ \E r \in Records : PrintMooncal(r)

SpecPrint == PrintInit /\ [][PrintNext]_vars

\* C28: print_moonphase and print_mooncal leave everything readable through
\* the record they are given, its UTC date-time included, unchanged, and
\* printing a record again, nothing readable through it having changed since
\* the last printout, writes the same text.
C28_PrintOnlyReads ==
    (shown.fn # "none" /\ shown.rec # 0)
        => /\ shown.after = shown.before
           /\ (/\ shown.prev.fn = shown.fn /\ shown.prev.rec = shown.rec
               /\ shown.prev.after = shown.before)
                 => shown.text = shown.prev.text

\* ---- C29 ----
\* C29: when moonphase or mooncal returned 0 for the timestamp of a run,
\* for_custom_timestamp passed neither unfilled record to print_moonphase
\* or print_mooncal.
C29_PrintsOnlyComputed ==
    (/\ simt # NoVal /\ runs > 0 /\ shown # NoVal
     /\ gmtime(AddSeconds(simt, -21600)) = NULL)
        => ((shown.moonphase = 0 \/ shown.mooncal = 0) => shown.passed = {})

\* ---- C30 ----
\* arg matches [+-]?[0-9]+ : an optional sign, then at least one digit and
\* nothing else
MatchesSignedDigits(arg) ==
    \E sign \in {0, 1} :
        /\ Len(arg) >= sign + 1
        /\ sign = 1 => arg[1] \in {"+", "-"}
        /\ \A i \in (sign + 1)..Len(arg) :
              arg[i] \in {"0", "1", "2", "3", "4", "5", "6", "7", "8", "9"}

\* C30: is_arg_timestamp(arg) is true exactly when arg matches [+-]?[0-9]+;
\* only such arguments are parsed as Unix timestamps, and every other
\* argument (the help options aside) is parsed as a datetime string.
C30_TimestampArguments ==
    (call # NoVal /\ call.fn = "main" /\ call.is_timestamp # NoVal)
        => /\ call.is_timestamp.value = MatchesSignedDigits(call.arg)
           /\ (call.route = "timestamp_str_to_timestamp")
                  = MatchesSignedDigits(call.arg)
           /\ (call.route = "datetime_str_to_timestamp")
                  = ~MatchesSignedDigits(call.arg)

====
